---- MODULE Spec2Model ----
(***************************************************************************)
(* A model of the in-memory positional inverted index of the repository:   *)
(* BooleanIndex and TFIDFIndex (src/src/indexing) with their pickle        *)
(* snapshots, the text analyzer (src/src/preprocessing/text_processor.py), *)
(* the two ranked evaluation strategies of QueryProcessor and the          *)
(* BooleanQueryParser (src/src/query).                                     *)
(*                                                                         *)
(* One index object is modelled.  Its class is fixed at construction       *)
(* (cls); the fields a class does not have stay empty.  Python dicts keep  *)
(* insertion order, and the ranked evaluators depend on it, so a posting   *)
(* list {doc_id: posting} is a sequence of <<doc_id, posting>> pairs in    *)
(* insertion order.  A BooleanIndex posting is the list of positions; a    *)
(* TFIDFIndex posting is the tuple <<tf, positions>>.                      *)
(*                                                                         *)
(* Later sections model the query-time metrics (base_index.py and          *)
(* src/src/utils/metrics.py), a writer and a reader thread on one          *)
(* TFIDFIndex, and the RedisIndex and PostgreSQLIndex objects that share a *)
(* server (redis_index.py, postgresql_index.py).                           *)
(***************************************************************************)
EXTENDS Integers, Sequences, FiniteSets, TLC

VARIABLES cls, use_stemming, use_stopwords, inverted_index, documents,
          doc_lengths, doc_freq, idf_cache, doc_count, term_count,
          query_times, last, file, writer, parser, parsed, metrics, report,
          adding, searching, redis_client, redis_index, conn,
          postgresql_index

vars == <<cls, use_stemming, use_stopwords, inverted_index, documents,
          doc_lengths, doc_freq, idf_cache, doc_count, term_count,
          query_times, last, file, writer, parser, parsed, metrics, report,
          adding, searching, redis_client, redis_index, conn,
          postgresql_index>>

\* the snapshot at the path of save and load, and the toggles of the index
\* that wrote it
snapshotVars == <<file, writer>>

\* the BooleanQueryParser object, and the query and result of its last parse
parserVars == <<parser, parsed>>

\* self.metrics of the index, with the query times themselves, and the dict
\* the last get_metrics or get_latency_percentiles returned
metricsVars == <<metrics, report>>

\* the add_document call of the writer thread and the search call of a
\* reader thread, each with its place in the method and its locals
taskVars == <<adding, searching>>

\* the Redis server behind redis_client and the RedisIndex handles opened on
\* it; the PostgreSQL database behind conn and the PostgreSQLIndex handles
remoteVars == <<redis_client, redis_index, conn, postgresql_index>>

\* the state the operations on the index in memory and the parser leave alone
restVars == <<metricsVars, taskVars, remoteVars>>

(***************************************************************************)
(* Bounds of the model.                                                    *)
(***************************************************************************)
\* the longest raw text handed to add_document or to a query, in words
MaxLen == 2
\* the number of add_document calls in one run
MaxAdds == 2
\* the number of recorded query times in one run
MaxQueries == 1
\* the largest top_k a ranked query is checked with
MaxTopK == 2
\* the number of add_document calls in one run of a scenario
MaxScenarioAdds == 3
\* the longest query string handed to parse, in whitespace-delimited words
MaxQueryWords == 3
\* the number of query times one run with evaluate records
MaxEvalQueries == 2
\* the number of query times recorded in one run with get_metrics
MaxTimes == 4
\* the largest query time recorded, in ticks of the clock
MaxTime == 2

DocIds == {"d1", "d2"}

\* ascending order of the doc_id strings
DocOrder == <<"d1", "d2">>

\* the raw words texts are made of
RawWords == {"The", "cats", "mat"}

Texts == UNION {[1..n -> RawWords] : n \in 0..MaxLen}

Classes == {"BooleanIndex", "TFIDFIndex"}

(***************************************************************************)
(* TextProcessor                                                           *)
(***************************************************************************)
\* text.lower() on the words of the model
Lower(w) ==
    CASE w = "The"     -> "the"
      [] w = "Machine" -> "machine"
      [] w = "Deep"    -> "deep"
      [] w = "Neural"  -> "neural"
      [] OTHER         -> w

\* stopwords.words('english'), restricted to the words of the model
stop_words == {"the", "is", "a", "of", "are", "in", "on"}

\* PorterStemmer.stem on the words of the model
Stem(w) ==
    CASE w = "cats"         -> "cat"
      [] w = "machine"      -> "machin"
      [] w = "learning"     -> "learn"
      [] w = "artificial"   -> "artifici"
      [] w = "intelligence" -> "intellig"
      [] w = "networks"     -> "network"
      [] w = "used"         -> "use"
      [] OTHER              -> w

RECURSIVE tokenize(_)
tokenize(text) ==
    IF Len(text) = 0 THEN <<>>
    ELSE <<Lower(text[1])>> \o tokenize(SubSeq(text, 2, Len(text)))

RECURSIVE StemAll(_)
StemAll(tokens) ==
    IF Len(tokens) = 0 THEN <<>>
    ELSE <<Stem(tokens[1])>> \o StemAll(SubSeq(tokens, 2, Len(tokens)))

\* an analyzer that removes no stopword
RemoveStopwordsNone(tokens) == tokens

\* [token for token in tokens if token not in self.stop_words]
RemoveStopwords(tokens) == SelectSeq(tokens, LAMBDA t : t \notin stop_words)

preprocess(text, stemming, stopwords) ==
    LET tokens  == tokenize(text)
        kept    == IF stopwords THEN RemoveStopwords(tokens) ELSE tokens
    IN  IF stemming THEN StemAll(kept) ELSE kept

\* every term an analyzer of the model can produce
Terms == {"the", "cats", "cat", "mat"}

(***************************************************************************)
(* Python dict with insertion order, as a sequence of <<key, value>>       *)
(***************************************************************************)
Keys(d) == {d[i][1] : i \in 1..Len(d)}

HasKey(d, k) == \E i \in 1..Len(d) : d[i][1] = k

Lookup(d, k) == d[CHOOSE i \in 1..Len(d) : d[i][1] = k][2]

\* d[k] = v: an existing key keeps its place, a new key goes last
Store(d, k, v) ==
    IF HasKey(d, k)
    THEN LET i == CHOOSE j \in 1..Len(d) : d[j][1] = k
         IN  SubSeq(d, 1, i - 1) \o <<<<k, v>>>> \o SubSeq(d, i + 1, Len(d))
    ELSE Append(d, <<k, v>>)

\* the value a defaultdict creates for a missing doc_id
DefaultPosting(c) == IF c = "TFIDFIndex" THEN <<0, <<>>>> ELSE <<>>

\* self.inverted_index[term] on defaultdict: a missing term is created
GetTerm(idx, term) ==
    IF term \in DOMAIN idx THEN idx
    ELSE [t \in DOMAIN idx \cup {term} |-> IF t = term THEN <<>> ELSE idx[t]]

\* self.inverted_index[term][doc_id]: a missing term and doc_id are created
GetTermDoc(idx, term, doc_id, c) ==
    LET idx1 == GetTerm(idx, term)
    IN  IF HasKey(idx1[term], doc_id) THEN idx1
        ELSE [idx1 EXCEPT ![term] = Append(@, <<doc_id, DefaultPosting(c)>>)]

(***************************************************************************)
(* add_document                                                            *)
(***************************************************************************)
\* for position, term in enumerate(tokens):
\*     self.inverted_index[term][doc_id].append(position)
RECURSIVE BooleanBuild(_, _, _, _)
BooleanBuild(idx, doc_id, tokens, i) ==
    IF i > Len(tokens) THEN idx
    ELSE LET term == tokens[i]
             idx1 == GetTermDoc(idx, term, doc_id, "BooleanIndex")
             old  == Lookup(idx1[term], doc_id)
             idx2 == [idx1 EXCEPT ![term] = Store(@, doc_id, Append(old, i - 1))]
         IN  BooleanBuild(idx2, doc_id, tokens, i + 1)

\* term_positions[term] of TFIDFIndex.add_document
RECURSIVE PositionsOf(_, _, _)
PositionsOf(tokens, term, i) ==
    IF i > Len(tokens) THEN <<>>
    ELSE IF tokens[i] = term
         THEN <<i - 1>> \o PositionsOf(tokens, term, i + 1)
         ELSE PositionsOf(tokens, term, i + 1)

\* a term frequency that records presence instead of the occurrence count
TermFrequencyPresence(positions) == 1

\* tf = len(positions)
TermFrequency(positions) == Len(positions)

\* for term, positions in term_positions.items():
\*     self.inverted_index[term][doc_id] = (tf, positions)
TFIDFBuild(idx, doc_id, tokens) ==
    LET present == {tokens[i] : i \in 1..Len(tokens)}
    IN  [t \in DOMAIN idx \cup present |->
            IF t \in present
            THEN LET positions == PositionsOf(tokens, t, 1)
                     pl == IF t \in DOMAIN idx THEN idx[t] ELSE <<>>
                 IN  Store(pl, doc_id, <<TermFrequency(positions), positions>>)
            ELSE idx[t]]

\* a document frequency that counts every occurrence of a term
DocFreqPerOccurrence(df, tokens) ==
    LET present == {tokens[i] : i \in 1..Len(tokens)}
    IN  [t \in DOMAIN df \cup present |->
            IF t \in present
            THEN (IF t \in DOMAIN df THEN df[t] ELSE 0)
                     + Len(PositionsOf(tokens, t, 1))
            ELSE df[t]]

\* self.doc_freq[term] += 1 for every term of term_positions
DocFreqAfter(df, tokens) ==
    LET present == {tokens[i] : i \in 1..Len(tokens)}
    IN  [t \in DOMAIN df \cup present |->
            IF t \in present
            THEN (IF t \in DOMAIN df THEN df[t] ELSE 0) + 1
            ELSE df[t]]

\* a dict, as a function, with key k set to v
Put(f, k, v) == [x \in DOMAIN f \cup {k} |-> IF x = k THEN v ELSE f[x]]

\* a term count that is not refreshed from the index
TermCountStale(idx) == term_count

\* self.term_count = len(self.inverted_index)
TermCount(idx) == Cardinality(DOMAIN idx)

EmptyDict == [x \in {} |-> 0]

NoCall == [op |-> "none", miss |-> FALSE]

\* no file at the path of save and load
NoFile == [state |-> "absent", data |-> <<>>]

NoWriter == [use_stemming |-> TRUE, use_stopwords |-> TRUE]

\* Python's None, where a QueryNode is expected
None == [node |-> "None"]

\* no parse yet: query is the words of the last query string, tree what
\* parse returned, raised whether it raised
NoParse == [query |-> <<>>, tree |-> None, raised |-> FALSE]

\* no get_metrics and no get_latency_percentiles yet
NoReport == [op |-> "none"]

\* the writer thread is in no add_document call
NoAdd == [pc |-> "idle"]

\* the reader thread is in no search call
NoSearch == [pc |-> "idle"]

\* the index objects opened on one index name of a server
Handles == {"h1", "h2"}

\* redis_client.get of a key that does not exist
NoKey == [key |-> "none"]

\* a Redis server with no key of the index: the document keys (doc:), the
\* length keys (len:), the hashes of the terms (inv:) and the metadata key
EmptyRedis == [doc |-> EmptyDict, len |-> EmptyDict, inv |-> EmptyDict,
               metadata |-> NoKey]

\* a database whose three tables are empty; a row of the inverted index is
\* kept under its primary key <<term, doc_id>>
EmptyDatabase == [documents |-> EmptyDict, inverted_index |-> EmptyDict,
                  metadata |-> EmptyDict]

\* an index object that is not constructed yet
NoHandle == [state |-> "none"]

\* BooleanIndex.add_document
AddDocumentBoolean(doc_id, text) ==
    /\ cls = "BooleanIndex"
    /\ LET tokens == preprocess(text, use_stemming, use_stopwords)
           idx    == BooleanBuild(inverted_index, doc_id, tokens, 1)
       IN  /\ documents' = Put(documents, doc_id, text)
           /\ doc_lengths' = Put(doc_lengths, doc_id, Len(tokens))
           /\ inverted_index' = idx
           /\ doc_count' = doc_count + 1
           /\ term_count' = TermCount(idx)
    /\ last' = [op |-> "add_document", miss |-> FALSE]
    /\ UNCHANGED <<snapshotVars, parserVars, restVars>>
    /\ UNCHANGED <<cls, use_stemming, use_stopwords, doc_freq, idf_cache,
                   query_times>>

\* the calls of BooleanIndex.add_document in a run of at most MaxAdds calls
BooleanAddDocument(doc_id, text) ==
    /\ doc_count < MaxAdds
    /\ AddDocumentBoolean(doc_id, text)

\* TFIDFIndex.add_document
AddDocumentTFIDF(doc_id, text) ==
    /\ cls = "TFIDFIndex"
    /\ LET tokens == preprocess(text, use_stemming, use_stopwords)
           idx    == TFIDFBuild(inverted_index, doc_id, tokens)
       IN  /\ documents' = Put(documents, doc_id, text)
           /\ doc_lengths' = Put(doc_lengths, doc_id, Len(tokens))
           /\ inverted_index' = idx
           /\ doc_freq' = DocFreqAfter(doc_freq, tokens)
           /\ doc_count' = doc_count + 1
           /\ term_count' = TermCount(idx)
    /\ idf_cache' = EmptyDict
    /\ last' = [op |-> "add_document", miss |-> FALSE]
    /\ UNCHANGED <<snapshotVars, parserVars, restVars>>
    /\ UNCHANGED <<cls, use_stemming, use_stopwords, query_times>>

\* the calls of TFIDFIndex.add_document in a run of at most MaxAdds calls
TFIDFAddDocument(doc_id, text) ==
    /\ doc_count < MaxAdds
    /\ AddDocumentTFIDF(doc_id, text)

(***************************************************************************)
(* Scoring.  A score is a float in the code; here it is an integer in      *)
(* units of 1/60 000 000: idf in millionths (LnMicro), tf / doc_length in  *)
(* sixtieths (every length of the model divides 60).                       *)
(***************************************************************************)
\* math.log(k) for k = 1..8, in millionths; ln 4 = 2 ln 2, ln 6 = ln 2 + ln 3
\* and ln 8 = 3 ln 2 hold exactly, so Log depends on n / d only
LnMicro == <<0, 693147, 1098612, 1386294, 1609438, 1791759, 1945910, 2079441>>

\* math.log(n / d)
Log(n, d) == LnMicro[n] - LnMicro[d]

\* the score 1.0
ScoreOne == 60 * 1000000

\* a lookup that is not guarded by the membership test
ContainsUnguarded(idx, term) == TRUE

\* term in self.inverted_index
Contains(idx, term) == term \in DOMAIN idx

\* _calculate_idf(term), with the IDF cache it leaves
CalculateIdf(cache, term) ==
    IF term \in DOMAIN cache THEN [idf |-> cache[term], cache |-> cache]
    ELSE IF term \notin DOMAIN doc_freq THEN [idf |-> 0, cache |-> cache]
    ELSE LET idf == Log(doc_count, doc_freq[term])
         IN  [idf |-> idf, cache |-> Put(cache, term, idf)]

\* _calculate_tfidf(tf, doc_length, idf)
CalculateTfidf(tf, doc_length, idf) ==
    IF doc_length > 0 THEN ((tf * 60) \div doc_length) * idf ELSE 0

\* doc_scores[doc_id] += score on a defaultdict(float)
AddScore(scores, doc_id, score) ==
    IF HasKey(scores, doc_id)
    THEN Store(scores, doc_id, Lookup(scores, doc_id) + score)
    ELSE Append(scores, <<doc_id, score>>)

\* sorted(..., key=score, reverse=True) is stable: x goes after every entry
\* whose score is at least its own
RECURSIVE InsertByScore(_, _)
InsertByScore(sorted, x) ==
    IF Len(sorted) = 0 THEN <<x>>
    ELSE IF sorted[1][2] >= x[2]
         THEN <<sorted[1]>> \o InsertByScore(Tail(sorted), x)
         ELSE <<x>> \o sorted

RECURSIVE SortByScore(_, _)
SortByScore(scores, i) ==
    IF i = 0 THEN <<>>
    ELSE InsertByScore(SortByScore(scores, i - 1), scores[i])

\* sorted(doc_scores.items(), key=lambda x: x[1], reverse=True)[:top_k]
Ranked(scores, top_k) ==
    LET all == SortByScore(scores, Len(scores))
    IN  SubSeq(all, 1, IF top_k < Len(all) THEN top_k ELSE Len(all))

(***************************************************************************)
(* TFIDFIndex.search                                                       *)
(***************************************************************************)
\* for doc_id, (tf, _) in self.inverted_index[term].items(): ... += tfidf
RECURSIVE SearchPostings(_, _, _, _)
SearchPostings(scores, posting_list, i, idf) ==
    IF i > Len(posting_list) THEN scores
    ELSE LET doc_id == posting_list[i][1]
             tf     == posting_list[i][2][1]
             score  == CalculateTfidf(tf, doc_lengths[doc_id], idf)
         IN  SearchPostings(AddScore(scores, doc_id, score), posting_list,
                            i + 1, idf)

\* a loop that gives up, with no score, at a term that is not indexed
RECURSIVE SearchTermsAllOrNothing(_, _, _)
SearchTermsAllOrNothing(query_terms, i, acc) ==
    IF i > Len(query_terms) THEN acc
    ELSE LET term == query_terms[i]
         IN  IF Contains(acc.idx, term)
             THEN LET r    == CalculateIdf(acc.cache, term)
                      idx1 == GetTerm(acc.idx, term)
                      sc   == SearchPostings(acc.scores, idx1[term], 1, r.idf)
                  IN  SearchTermsAllOrNothing(query_terms, i + 1,
                          [scores |-> sc, cache |-> r.cache, idx |-> idx1])
             ELSE [acc EXCEPT !.scores = <<>>]

\* the loop over query_terms; acc is [scores, cache, idx]
RECURSIVE SearchTerms(_, _, _)
SearchTerms(query_terms, i, acc) ==
    IF i > Len(query_terms) THEN acc
    ELSE LET term == query_terms[i]
         IN  IF Contains(acc.idx, term)
             THEN LET r    == CalculateIdf(acc.cache, term)
                      idx1 == GetTerm(acc.idx, term)
                      sc   == SearchPostings(acc.scores, idx1[term], 1, r.idf)
                  IN  SearchTerms(query_terms, i + 1,
                          [scores |-> sc, cache |-> r.cache, idx |-> idx1])
             ELSE SearchTerms(query_terms, i + 1, acc)

\* the state a ranked evaluation starts in
Start == [scores |-> <<>>, cache |-> idf_cache, idx |-> inverted_index]

\* what search returns once the query is analyzed to query_terms, as the
\* list of <<doc_id, score>>
SearchTermsResult(query_terms, top_k) ==
    IF Len(query_terms) = 0 THEN <<>>
    ELSE Ranked(SearchTerms(query_terms, 1, Start).scores, top_k)

\* what search(query, top_k) returns
SearchResult(query, top_k) ==
    SearchTermsResult(preprocess(query, use_stemming, use_stopwords), top_k)

Missed(query_terms) ==
    \E i \in 1..Len(query_terms) : query_terms[i] \notin DOMAIN inverted_index

TFIDFSearch(query, top_k) ==
    /\ cls = "TFIDFIndex"
    /\ query_times < MaxQueries
    /\ LET query_terms == preprocess(query, use_stemming, use_stopwords)
           acc == SearchTerms(query_terms, 1, Start)
       IN  /\ inverted_index' = acc.idx
           /\ idf_cache' = acc.cache
           /\ query_times' =
                  IF Len(query_terms) = 0 THEN query_times ELSE query_times + 1
           /\ last' = [op |-> "search", miss |-> Missed(query_terms)]
    /\ UNCHANGED <<snapshotVars, parserVars, restVars>>
    /\ UNCHANGED <<cls, use_stemming, use_stopwords, documents, doc_lengths,
                   doc_freq, doc_count, term_count>>

(***************************************************************************)
(* BooleanIndex.search, phrase_search, get_posting_list                    *)
(***************************************************************************)
\* the loop over query_terms of BooleanIndex.search; acc is
\* [docs, first, idx]: result_docs (first = it is still None) and the index
RECURSIVE BooleanSearchTerms(_, _, _)
BooleanSearchTerms(query_terms, i, acc) ==
    IF i > Len(query_terms) THEN acc
    ELSE LET term == query_terms[i]
         IN  IF Contains(acc.idx, term)
             THEN LET idx1 == GetTerm(acc.idx, term)
                      term_docs == Keys(idx1[term])
                  IN  BooleanSearchTerms(query_terms, i + 1,
                          [docs  |-> IF acc.first THEN term_docs
                                     ELSE acc.docs \cap term_docs,
                           first |-> FALSE, idx |-> idx1])
             ELSE [docs |-> {}, first |-> FALSE, idx |-> acc.idx]

BooleanStart == [docs |-> {}, first |-> TRUE, idx |-> inverted_index]

\* the documents BooleanIndex.search chooses its top_k results among
BooleanSearchDocs(query) ==
    LET query_terms == preprocess(query, use_stemming, use_stopwords)
    IN  IF Len(query_terms) = 0 THEN {}
        ELSE BooleanSearchTerms(query_terms, 1, BooleanStart).docs

BooleanSearch(query, top_k) ==
    /\ cls = "BooleanIndex"
    /\ query_times < MaxQueries
    /\ LET query_terms == preprocess(query, use_stemming, use_stopwords)
           acc == BooleanSearchTerms(query_terms, 1, BooleanStart)
       IN  /\ inverted_index' = acc.idx
           /\ query_times' =
                  IF Len(query_terms) = 0 THEN query_times ELSE query_times + 1
           /\ last' = [op |-> "search", miss |-> Missed(query_terms)]
    /\ UNCHANGED <<snapshotVars, parserVars, restVars>>
    /\ UNCHANGED <<cls, use_stemming, use_stopwords, documents, doc_lengths,
                   doc_freq, idf_cache, doc_count, term_count>>

\* the first loop of phrase_search; acc is [docs, first, idx, absent]:
\* candidate_docs, and absent = the loop returned [] at a term not indexed
RECURSIVE PhraseCandidates(_, _, _)
PhraseCandidates(phrase_terms, i, acc) ==
    IF i > Len(phrase_terms) THEN acc
    ELSE LET term == phrase_terms[i]
         IN  IF Contains(acc.idx, term)
             THEN LET idx1 == GetTerm(acc.idx, term)
                      term_docs == Keys(idx1[term])
                  IN  PhraseCandidates(phrase_terms, i + 1,
                          [docs   |-> IF acc.first THEN term_docs
                                      ELSE acc.docs \cap term_docs,
                           first  |-> FALSE, idx |-> idx1, absent |-> FALSE])
             ELSE [docs |-> {}, first |-> FALSE, idx |-> acc.idx,
                   absent |-> TRUE]

\* a check that counts the terms after the first from 0: the term after
\* the first is expected at start_pos itself
RECURSIVE PhraseAtFromZero(_, _, _, _, _)
PhraseAtFromZero(idx, phrase_terms, doc_id, start_pos, i) ==
    IF i > Len(phrase_terms) THEN [idx |-> idx, ok |-> TRUE]
    ELSE LET idx1 == GetTermDoc(idx, phrase_terms[i], doc_id, "BooleanIndex")
             positions == Lookup(idx1[phrase_terms[i]], doc_id)
         IN  IF \E j \in 1..Len(positions) : positions[j] = start_pos + i - 2
             THEN PhraseAtFromZero(idx1, phrase_terms, doc_id, start_pos, i + 1)
             ELSE [idx |-> idx1, ok |-> FALSE]

\* expected_pos not in self.inverted_index[term][doc_id], for i = from..;
\* r is [idx, ok]
RECURSIVE PhraseAt(_, _, _, _, _)
PhraseAt(idx, phrase_terms, doc_id, start_pos, i) ==
    IF i > Len(phrase_terms) THEN [idx |-> idx, ok |-> TRUE]
    ELSE LET idx1 == GetTermDoc(idx, phrase_terms[i], doc_id, "BooleanIndex")
             positions == Lookup(idx1[phrase_terms[i]], doc_id)
         IN  IF \E j \in 1..Len(positions) : positions[j] = start_pos + i - 1
             THEN PhraseAt(idx1, phrase_terms, doc_id, start_pos, i + 1)
             ELSE [idx |-> idx1, ok |-> FALSE]

\* for start_pos in first_term_positions: ... break at the first match;
\* the result is [idx, hit], hit = <<start_pos>> or <<>>
RECURSIVE PhraseInDoc(_, _, _, _, _)
PhraseInDoc(idx, phrase_terms, doc_id, first_term_positions, j) ==
    IF j > Len(first_term_positions) THEN [idx |-> idx, hit |-> <<>>]
    ELSE LET r == PhraseAt(idx, phrase_terms, doc_id,
                           first_term_positions[j], 2)
         IN  IF r.ok THEN [idx |-> r.idx, hit |-> <<first_term_positions[j]>>]
             ELSE PhraseInDoc(r.idx, phrase_terms, doc_id,
                              first_term_positions, j + 1)

\* for doc_id in candidate_docs, in the order `order`; acc is [idx, results]
RECURSIVE PhraseDocs(_, _, _, _)
PhraseDocs(phrase_terms, order, n, acc) ==
    IF n > Len(order) THEN acc
    ELSE LET doc_id == order[n]
             idx1 == GetTermDoc(acc.idx, phrase_terms[1], doc_id, "BooleanIndex")
             first_term_positions == Lookup(idx1[phrase_terms[1]], doc_id)
             r == PhraseInDoc(idx1, phrase_terms, doc_id,
                              first_term_positions, 1)
         IN  PhraseDocs(phrase_terms, order, n + 1,
                 [idx |-> r.idx,
                  results |-> IF r.hit = <<>> THEN acc.results
                              ELSE Append(acc.results,
                                          <<doc_id, r.hit[1], ScoreOne>>)])

\* the orders a Python set of doc_ids can be iterated in
Orders(S) ==
    {o \in [1..Cardinality(S) -> S] : \A a, b \in DOMAIN o : a # b => o[a] # o[b]}

PhraseStart == [docs |-> {}, first |-> TRUE, idx |-> inverted_index,
                absent |-> FALSE]

\* phrase_search, iterating candidate_docs in the order `order`:
\* [idx, results, recorded], results the list of
\* <<doc_id, phrase_position, score>>
PhraseSearchRun(phrase, order) ==
    LET phrase_terms == preprocess(phrase, use_stemming, use_stopwords)
        c == PhraseCandidates(phrase_terms, 1, PhraseStart)
    IN  IF Len(phrase_terms) = 0
        THEN [idx |-> inverted_index, results |-> <<>>, recorded |-> FALSE]
        ELSE IF c.absent
        THEN [idx |-> c.idx, results |-> <<>>, recorded |-> TRUE]
        ELSE LET r == PhraseDocs(phrase_terms, order, 1,
                                 [idx |-> c.idx, results |-> <<>>])
             IN  [idx |-> r.idx, results |-> r.results, recorded |-> TRUE]

\* candidate_docs of phrase_search
PhraseCandidateDocs(phrase) ==
    LET phrase_terms == preprocess(phrase, use_stemming, use_stopwords)
    IN  IF Len(phrase_terms) = 0 THEN {}
        ELSE PhraseCandidates(phrase_terms, 1, PhraseStart).docs

PhraseSearch(phrase) ==
    /\ cls = "BooleanIndex"
    /\ query_times < MaxQueries
    /\ \E order \in Orders(PhraseCandidateDocs(phrase)) :
         LET r == PhraseSearchRun(phrase, order)
         IN  /\ inverted_index' = r.idx
             /\ query_times' =
                    IF r.recorded THEN query_times + 1 ELSE query_times
    /\ last' = [op |-> "phrase_search",
                miss |-> Missed(preprocess(phrase, use_stemming, use_stopwords))]
    /\ UNCHANGED <<snapshotVars, parserVars, restVars>>
    /\ UNCHANGED <<cls, use_stemming, use_stopwords, documents, doc_lengths,
                   doc_freq, idf_cache, doc_count, term_count>>

\* dict(self.inverted_index.get(processed_term[0], {}))
PostingListOf(term) ==
    LET processed_term == preprocess(term, use_stemming, use_stopwords)
    IN  IF Len(processed_term) > 0 /\ processed_term[1] \in DOMAIN inverted_index
        THEN inverted_index[processed_term[1]]
        ELSE <<>>

GetPostingList(term) ==
    /\ cls = "BooleanIndex"
    /\ last' = [op |-> "get_posting_list",
                miss |-> PostingListOf(term) = <<>>]
    /\ UNCHANGED <<snapshotVars, parserVars, restVars>>
    /\ UNCHANGED <<cls, use_stemming, use_stopwords, inverted_index, documents,
                   doc_lengths, doc_freq, idf_cache, doc_count, term_count,
                   query_times>>

(***************************************************************************)
(* QueryProcessor: term_at_a_time and document_at_a_time                   *)
(***************************************************************************)
\* self.index.doc_lengths.get(doc_id, 1)
DocLengthOr1(doc_id) ==
    IF doc_id \in DOMAIN doc_lengths THEN doc_lengths[doc_id] ELSE 1

\* the score one posting adds: [score, cache].  isinstance(data, tuple) and
\* hasattr(index, 'doc_freq') hold of a TFIDFIndex, neither of a BooleanIndex
PostingScore(cache, term, data, doc_length) ==
    IF cls = "TFIDFIndex"
    THEN LET r == CalculateIdf(cache, term)
         IN  [score |-> CalculateTfidf(data[1], doc_length, r.idf),
              cache |-> r.cache]
    ELSE [score |-> ScoreOne, cache |-> cache]

\* for doc_id, data in posting_list.items(); acc is [scores, cache, idx]
RECURSIVE TaatPostings(_, _, _, _)
TaatPostings(term, posting_list, i, acc) ==
    IF i > Len(posting_list) THEN acc
    ELSE LET doc_id == posting_list[i][1]
             r == PostingScore(acc.cache, term, posting_list[i][2],
                               DocLengthOr1(doc_id))
         IN  TaatPostings(term, posting_list, i + 1,
                 [scores |-> AddScore(acc.scores, doc_id, r.score),
                  cache |-> r.cache, idx |-> acc.idx])

RECURSIVE TaatTerms(_, _, _)
TaatTerms(query_terms, i, acc) ==
    IF i > Len(query_terms) THEN acc
    ELSE LET term == query_terms[i]
         IN  IF Contains(acc.idx, term)
             THEN LET idx1 == GetTerm(acc.idx, term)
                  IN  TaatTerms(query_terms, i + 1,
                          TaatPostings(term, idx1[term], 1,
                              [scores |-> acc.scores, cache |-> acc.cache,
                               idx |-> idx1]))
             ELSE TaatTerms(query_terms, i + 1, acc)

\* what term_at_a_time returns, as the list of <<doc_id, score>>
TaatResult(query_terms, top_k) ==
    Ranked(TaatTerms(query_terms, 1, Start).scores, top_k)

TermAtATime(query_terms, top_k) ==
    /\ query_times < MaxQueries
    /\ LET acc == TaatTerms(query_terms, 1, Start)
       IN  /\ inverted_index' = acc.idx
           /\ idf_cache' = acc.cache
    /\ query_times' = query_times + 1
    /\ last' = [op |-> "term_at_a_time", miss |-> Missed(query_terms)]
    /\ UNCHANGED <<snapshotVars, parserVars, restVars>>
    /\ UNCHANGED <<cls, use_stemming, use_stopwords, documents, doc_lengths,
                   doc_freq, doc_count, term_count>>

\* candidate_docs.update(self.index.inverted_index[term].keys()); acc is
\* [docs, idx]
RECURSIVE DaatCandidates(_, _, _)
DaatCandidates(query_terms, i, acc) ==
    IF i > Len(query_terms) THEN acc
    ELSE LET term == query_terms[i]
         IN  IF Contains(acc.idx, term)
             THEN LET idx1 == GetTerm(acc.idx, term)
                  IN  DaatCandidates(query_terms, i + 1,
                          [docs |-> acc.docs \cup Keys(idx1[term]),
                           idx |-> idx1])
             ELSE DaatCandidates(query_terms, i + 1, acc)

\* the score of one candidate: the loop over query_terms; acc is
\* [score, cache, idx]
RECURSIVE DaatScore(_, _, _, _)
DaatScore(query_terms, doc_id, i, acc) ==
    IF i > Len(query_terms) THEN acc
    ELSE LET term == query_terms[i]
         IN  IF Contains(acc.idx, term)
             THEN LET idx1 == GetTerm(acc.idx, term)
                  IN  IF HasKey(idx1[term], doc_id)
                      THEN LET r == PostingScore(acc.cache, term,
                                        Lookup(idx1[term], doc_id),
                                        DocLengthOr1(doc_id))
                           IN  DaatScore(query_terms, doc_id, i + 1,
                                   [score |-> acc.score + r.score,
                                    cache |-> r.cache, idx |-> idx1])
                      ELSE DaatScore(query_terms, doc_id, i + 1,
                               [acc EXCEPT !.idx = idx1])
             ELSE DaatScore(query_terms, doc_id, i + 1, acc)

\* for doc_id in candidate_docs, in the order `order`; acc is
\* [scores, cache, idx]
RECURSIVE DaatDocs(_, _, _, _)
DaatDocs(query_terms, order, n, acc) ==
    IF n > Len(order) THEN acc
    ELSE LET r == DaatScore(query_terms, order[n], 1,
                      [score |-> 0, cache |-> acc.cache, idx |-> acc.idx])
         IN  DaatDocs(query_terms, order, n + 1,
                 [scores |-> Append(acc.scores, <<order[n], r.score>>),
                  cache |-> r.cache, idx |-> r.idx])

DaatCandidateDocs(query_terms) ==
    DaatCandidates(query_terms, 1, [docs |-> {}, idx |-> inverted_index]).docs

\* document_at_a_time iterating candidate_docs in the order `order`
DaatRun(query_terms, order) ==
    LET c == DaatCandidates(query_terms, 1,
                            [docs |-> {}, idx |-> inverted_index])
    IN  DaatDocs(query_terms, order, 1,
                 [scores |-> <<>>, cache |-> idf_cache, idx |-> c.idx])

\* the lists document_at_a_time can return
DaatResults(query_terms, top_k) ==
    {Ranked(DaatRun(query_terms, order).scores, top_k) :
        order \in Orders(DaatCandidateDocs(query_terms))}

DocumentAtATime(query_terms, top_k) ==
    /\ query_times < MaxQueries
    /\ \E order \in Orders(DaatCandidateDocs(query_terms)) :
         LET acc == DaatRun(query_terms, order)
         IN  /\ inverted_index' = acc.idx
             /\ idf_cache' = acc.cache
    /\ query_times' = query_times + 1
    /\ last' = [op |-> "document_at_a_time", miss |-> Missed(query_terms)]
    /\ UNCHANGED <<snapshotVars, parserVars, restVars>>
    /\ UNCHANGED <<cls, use_stemming, use_stopwords, documents, doc_lengths,
                   doc_freq, doc_count, term_count>>

\* the analyzed term sequences the evaluators are called with
QueryTerms == {preprocess(x, use_stemming, use_stopwords) : x \in Texts}

Init ==
    /\ cls \in Classes
    /\ use_stemming = TRUE
    /\ use_stopwords = TRUE
    /\ inverted_index = EmptyDict
    /\ documents = EmptyDict
    /\ doc_lengths = EmptyDict
    /\ doc_freq = EmptyDict
    /\ idf_cache = EmptyDict
    /\ doc_count = 0
    /\ term_count = 0
    /\ query_times = 0
    /\ last = NoCall
    /\ file = NoFile
    /\ writer = NoWriter
    /\ parser = [tokens |-> <<>>, pos |-> 0]
    /\ parsed = NoParse
    /\ metrics = [query_times |-> <<>>]
    /\ report = NoReport
    /\ adding = NoAdd
    /\ searching = NoSearch
    /\ redis_client = EmptyRedis
    /\ redis_index = [h \in Handles |-> NoHandle]
    /\ conn = EmptyDatabase
    /\ postgresql_index = [h \in Handles |-> NoHandle]

Next ==
    \/ \E d \in DocIds, x \in Texts : BooleanAddDocument(d, x)
    \/ \E d \in DocIds, x \in Texts : TFIDFAddDocument(d, x)
    \/ \E q \in Texts, k \in 1..MaxTopK : TFIDFSearch(q, k)
    \/ \E q \in Texts, k \in 1..MaxTopK : BooleanSearch(q, k)
    \/ \E q \in Texts : PhraseSearch(q)
    \/ \E q \in Texts : GetPostingList(q)
    \/ \E q \in QueryTerms, k \in 1..MaxTopK : TermAtATime(q, k)
    \/ \E q \in QueryTerms, k \in 1..MaxTopK : DocumentAtATime(q, k)

Spec == Init /\ [][Next]_vars

\* the runs that only add documents
NextAdd ==
    \/ \E d \in DocIds, x \in Texts : BooleanAddDocument(d, x)
    \/ \E d \in DocIds, x \in Texts : TFIDFAddDocument(d, x)

SpecAdd == Init /\ [][NextAdd]_vars

\* the texts of the documents and queries of the runs that add and search:
\* no term, one term once and twice, two terms in both orders and around a
\* stopword, a term on both sides of another
SearchTexts ==
    {<<>>, <<"The">>, <<"cats">>, <<"mat", "mat">>, <<"cats", "mat">>,
     <<"mat", "cats">>, <<"cats", "The", "mat">>, <<"mat", "cats", "mat">>}

\* the runs that add documents and search the index
NextSearch ==
    \/ \E d \in DocIds, x \in SearchTexts : BooleanAddDocument(d, x)
    \/ \E d \in DocIds, x \in SearchTexts : TFIDFAddDocument(d, x)
    \/ /\ query_times < MaxQueries
       /\ \/ \E q \in SearchTexts, k \in 1..MaxTopK : TFIDFSearch(q, k)
          \/ \E q \in SearchTexts, k \in 1..MaxTopK : BooleanSearch(q, k)
          \/ \E q \in SearchTexts : PhraseSearch(q)

SpecSearch == Init /\ [][NextSearch]_vars

\* the runs of a BooleanIndex that add documents and search phrases
NextPhrase ==
    \/ \E d \in DocIds, x \in SearchTexts : BooleanAddDocument(d, x)
    \/ query_times < MaxQueries /\ \E q \in SearchTexts : PhraseSearch(q)

SpecPhrase == Init /\ [][NextPhrase]_vars

(***************************************************************************)
(* Scenario S1: three documents in a TFIDFIndex and a ranked search.       *)
(***************************************************************************)
ScenarioDocIds == {"doc1", "doc2", "doc3"}

S1Text1 == <<"Machine", "learning", "is", "a", "subset", "of", "artificial",
             "intelligence">>

S1Text2 == <<"Deep", "learning", "is", "a", "subset", "of", "machine",
             "learning">>

S1Text3 == <<"Neural", "networks", "are", "used", "in", "deep", "learning">>

S1Texts == {S1Text1, S1Text2, S1Text3}

\* the documents table once the scenario's three documents are added
S1Documents ==
    [d \in ScenarioDocIds |->
        CASE d = "doc1" -> S1Text1 [] d = "doc2" -> S1Text2 [] OTHER -> S1Text3]

S1Query == <<"machine", "learning">>

S1Queries == {S1Query, <<"machine">>, <<"learning">>, <<"deep", "networks">>}

S1AddDocument(doc_id, text) ==
    /\ doc_count < MaxScenarioAdds
    /\ AddDocumentTFIDF(doc_id, text)

NextS1 ==
    \/ \E d \in ScenarioDocIds, x \in S1Texts : S1AddDocument(d, x)
    \/ \E q \in S1Queries, k \in 1..MaxScenarioAdds : TFIDFSearch(q, k)

SpecS1 == Init /\ [][NextS1]_vars

(***************************************************************************)
(* save and load.  The object of the model is one handle; load is the      *)
(* call on a fresh handle of the same class, which is the handle of the    *)
(* model from then on.                                                     *)
(***************************************************************************)
\* pickle.dump(data, f) succeeds: the posting dicts of a BooleanIndex are
\* defaultdict(list); those of a TFIDFIndex are defaultdict(<lambda>), which
\* pickle refuses
Picklable == cls = "BooleanIndex" \/ DOMAIN inverted_index = {}

\* the dict `data` of save
SnapshotData ==
    [inverted_index |-> inverted_index, documents |-> documents,
     doc_lengths |-> doc_lengths, doc_freq |-> doc_freq,
     doc_count |-> doc_count, term_count |-> term_count,
     query_times |-> query_times]

\* open(path, 'wb') truncates the file; a pickle.dump that raises leaves it
\* empty
Save ==
    /\ file' = IF Picklable
               THEN [state |-> "pickle", data |-> <<SnapshotData>>]
               ELSE [state |-> "empty", data |-> <<>>]
    /\ writer' = [use_stemming |-> use_stemming, use_stopwords |-> use_stopwords]
    /\ last' = [op |-> "save", miss |-> FALSE]
    /\ UNCHANGED <<parserVars, restVars>>
    /\ UNCHANGED <<cls, use_stemming, use_stopwords, inverted_index, documents,
                   doc_lengths, doc_freq, idf_cache, doc_count, term_count,
                   query_times>>

\* load on a handle constructed with the toggles (stemming, stopwords);
\* pickle.load of an empty file raises EOFError and the handle stays as
\* constructed
Load(stemming, stopwords) ==
    /\ file.state # "absent"
    /\ use_stemming' = stemming
    /\ use_stopwords' = stopwords
    /\ IF file.state = "pickle"
       THEN LET data == file.data[1]
            IN  /\ inverted_index' = data.inverted_index
                /\ documents' = data.documents
                /\ doc_lengths' = data.doc_lengths
                /\ doc_freq' = data.doc_freq
                /\ doc_count' = data.doc_count
                /\ term_count' = data.term_count
                /\ query_times' = data.query_times
       ELSE /\ inverted_index' = EmptyDict
            /\ documents' = EmptyDict
            /\ doc_lengths' = EmptyDict
            /\ doc_freq' = EmptyDict
            /\ doc_count' = 0
            /\ term_count' = 0
            /\ query_times' = 0
    /\ idf_cache' = EmptyDict
    /\ last' = [op |-> "load", miss |-> FALSE]
    /\ UNCHANGED <<snapshotVars, parserVars, restVars>>
    /\ UNCHANGED cls

NextSnapshot ==
    \/ \E d \in DocIds, x \in Texts : BooleanAddDocument(d, x)
    \/ \E d \in DocIds, x \in Texts : TFIDFAddDocument(d, x)
    \/ Save
    \/ \E stemming, stopwords \in BOOLEAN : Load(stemming, stopwords)

SpecSnapshot == Init /\ [][NextSnapshot]_vars

(***************************************************************************)
(* BooleanQueryParser.  A str is the sequence of its characters; a query   *)
(* string is given by its whitespace-delimited words.                      *)
(***************************************************************************)
AND == <<"A", "N", "D">>

OR == <<"O", "R">>

NOT == <<"N", "O", "T">>

LeftParen == <<"(">>

RightParen == <<")">>

\* the words query strings are made of
QueryWords ==
    {<<"a">>, <<"b">>, AND, OR, NOT, LeftParen, RightParen,
     <<"a", "n", "d">>,
     <<"A", "N", "D", "R", "O", "I", "D">>,
     <<"O", "R", "A", "N", "G", "E">>,
     <<"N", "O", "T", "E">>,
     <<"\"", "a", " ", "b", "\"">>,
     <<"\"", "a">>}

\* the words that are search terms of the longer queries
TermWords == {<<"a">>, <<"b">>}

\* the query string of the words: ' '.join(words)
RECURSIVE Join(_)
Join(words) ==
    IF Len(words) = 0 THEN <<>>
    ELSE IF Len(words) = 1 THEN words[1]
    ELSE words[1] \o <<" ">> \o Join(Tail(words))

\* s[i:].startswith(w)
StartsWith(s, i, w) ==
    /\ i + Len(w) - 1 <= Len(s)
    /\ SubSeq(s, i, i + Len(w) - 1) = w

\* the length of the longest match of [^\s\(\)]+ at i
RECURSIVE WordRun(_, _)
WordRun(s, i) ==
    IF i > Len(s) \/ s[i] \in {" ", "(", ")"} THEN 0
    ELSE 1 + WordRun(s, i + 1)

\* the length of the match of "[^"]*" at i, 0 if there is none
QuotedRun(s, i) ==
    IF s[i] = "\"" /\ \E j \in (i + 1)..Len(s) : s[j] = "\""
    THEN LET j == CHOOSE k \in (i + 1)..Len(s) :
                      /\ s[k] = "\""
                      /\ \A m \in (i + 1)..(k - 1) : s[m] # "\""
         IN  j - i + 1
    ELSE 0

\* the length of the match of the pattern at i: the alternatives
\* "[^"]*" | AND | OR | NOT | \( | \) | [^\s\(\)]+ are tried in this order
MatchAt(s, i) ==
    IF QuotedRun(s, i) > 0 THEN QuotedRun(s, i)
    ELSE IF StartsWith(s, i, AND) THEN 3
    ELSE IF StartsWith(s, i, OR) THEN 2
    ELSE IF StartsWith(s, i, NOT) THEN 3
    ELSE IF s[i] \in {"(", ")"} THEN 1
    ELSE WordRun(s, i)

\* re.findall(pattern, query), from character i on
RECURSIVE FindAll(_, _)
FindAll(s, i) ==
    IF i > Len(s) THEN <<>>
    ELSE LET n == MatchAt(s, i)
         IN  IF n = 0 THEN FindAll(s, i + 1)
             ELSE <<SubSeq(s, i, i + n - 1)>> \o FindAll(s, i + n)

\* _tokenize(query)
Tokenize(query) == FindAll(query, 1)

\* _current_token(): None is the empty str here, no token being empty
CurrentToken(toks, p) == IF p < Len(toks) THEN toks[p + 1] ELSE <<>>

\* QueryNode(operator, value); the operator of a term leaf is None
QueryNode(operator, value) ==
    [operator |-> operator, value |-> value, left |-> None, right |-> None]

\* a node built with its operands the other way round
BinarySwapped(operator, left, right) ==
    [QueryNode(operator, <<>>) EXCEPT !.left = right, !.right = left]

\* node = QueryNode(operator); node.left = left; node.right = right
Binary(operator, left, right) ==
    [QueryNode(operator, <<>>) EXCEPT !.left = left, !.right = right]

\* the _parse_* methods return [node, pos]: the node and self.pos after it
RECURSIVE ParseOr(_, _), ParseOrLoop(_, _, _), ParseAnd(_, _),
          ParseAndLoop(_, _, _), ParseNot(_, _), ParsePrimary(_, _)

\* _parse_primary
ParsePrimary(toks, p) ==
    LET token == CurrentToken(toks, p)
    IN  IF token = <<>> THEN [node |-> None, pos |-> p]
        ELSE IF token = LeftParen
        THEN LET r == ParseOr(toks, p + 1)
             IN  IF CurrentToken(toks, r.pos) = RightParen
                 THEN [node |-> r.node, pos |-> r.pos + 1]
                 ELSE r
        ELSE IF token[1] = "\"" /\ token[Len(token)] = "\""
        THEN [node |-> QueryNode("PHRASE", SubSeq(token, 2, Len(token) - 1)),
              pos |-> p + 1]
        ELSE [node |-> QueryNode("None", token), pos |-> p + 1]

\* _parse_not
ParseNot(toks, p) ==
    IF CurrentToken(toks, p) = NOT
    THEN LET r == ParseNot(toks, p + 1)
         IN  [node |-> [QueryNode("NOT", <<>>) EXCEPT !.left = r.node],
              pos |-> r.pos]
    ELSE ParsePrimary(toks, p)

\* while self._current_token() == "AND": ...
ParseAndLoop(toks, left, p) ==
    IF CurrentToken(toks, p) = AND
    THEN LET r == ParseNot(toks, p + 1)
         IN  ParseAndLoop(toks, Binary("AND", left, r.node), r.pos)
    ELSE [node |-> left, pos |-> p]

\* _parse_and
ParseAnd(toks, p) ==
    LET r == ParseNot(toks, p)
    IN  ParseAndLoop(toks, r.node, r.pos)

\* while self._current_token() == "OR": ...
ParseOrLoop(toks, left, p) ==
    IF CurrentToken(toks, p) = OR
    THEN LET r == ParseAnd(toks, p + 1)
         IN  ParseOrLoop(toks, Binary("OR", left, r.node), r.pos)
    ELSE [node |-> left, pos |-> p]

\* _parse_or
ParseOr(toks, p) ==
    LET r == ParseAnd(toks, p)
    IN  ParseOrLoop(toks, r.node, r.pos)

\* the state of the index, which the parser does not touch
indexVars == <<cls, use_stemming, use_stopwords, inverted_index, documents,
               doc_lengths, doc_freq, idf_cache, doc_count, term_count,
               query_times, last>>

\* the parser is as constructed
FreshParser == parser = [tokens |-> <<>>, pos |-> 0] /\ parsed = NoParse

\* parse(' '.join(words)); parse has no raise statement
Parse(words) ==
    /\ LET toks == Tokenize(Join(words))
           r == ParseOr(toks, 0)
       IN  IF Len(toks) = 0
           THEN /\ parser' = [tokens |-> toks, pos |-> 0]
                /\ parsed' = [query |-> words, tree |-> None, raised |-> FALSE]
           ELSE /\ parser' = [tokens |-> toks, pos |-> r.pos]
                /\ parsed' = [query |-> words, tree |-> r.node, raised |-> FALSE]
    /\ UNCHANGED <<indexVars, snapshotVars, restVars>>

\* longer query strings: operators in a row and around a group
LongQueries ==
    UNION {{<<x, OR, y, AND, z>>, <<x, AND, y, OR, z>>, <<x, AND, y, AND, z>>,
            <<x, OR, y, OR, z>>, <<NOT, x, AND, y>>, <<NOT, x, OR, y>>,
            <<NOT, NOT, x>>, <<NOT, NOT, x, AND, y>>,
            <<LeftParen, x, OR, y, RightParen, AND, z>>,
            <<x, AND, LeftParen, y, OR, z, RightParen>>,
            <<NOT, LeftParen, x, AND, y, RightParen>>,
            <<x, OR, LeftParen, y, OR, z, RightParen>>} :
           <<x, y, z>> \in TermWords \X TermWords \X TermWords}

\* one parse on each parser
NextParse ==
    /\ FreshParser
    /\ \/ \E n \in 0..MaxQueryWords :
              \E words \in [1..n -> QueryWords] : Parse(words)
       \/ \E words \in LongQueries : Parse(words)

SpecParse == Init /\ [][NextParse]_vars

(***************************************************************************)
(* Scenario S3: three documents in a BooleanIndex and a phrase search.     *)
(***************************************************************************)
S3Text1 == <<"the", "cat", "sat", "on", "the", "mat">>

S3Text2 == <<"cat", "sat", "on", "mat">>

S3Text3 == <<"mat", "sat", "on", "cat">>

S3Texts == {S3Text1, S3Text2, S3Text3}

\* the documents table once the scenario's three documents are added
S3Documents ==
    [d \in ScenarioDocIds |->
        CASE d = "doc1" -> S3Text1 [] d = "doc2" -> S3Text2 [] OTHER -> S3Text3]

S3Phrase == <<"cat", "sat", "on", "the", "mat">>

\* the phrases searched: the scenario's, one of stopwords only, and one with
\* a word no document holds
S3Phrases == {S3Phrase, <<"on", "the">>, <<"sat", "dog">>}

S3AddDocument(doc_id, text) ==
    /\ doc_count < MaxScenarioAdds
    /\ AddDocumentBoolean(doc_id, text)

NextS3 ==
    \/ \E d \in ScenarioDocIds, x \in S3Texts : S3AddDocument(d, x)
    \/ \E q \in S3Phrases : PhraseSearch(q)

SpecS3 == Init /\ [][NextS3]_vars

(***************************************************************************)
(* BooleanQueryParser.evaluate.  The value of a leaf is the text handed to *)
(* index.search or index.phrase_search, in the form the index takes texts: *)
(* the sequence of its words.  An evaluation goes through the state st =   *)
(* [cache, idx, queries]: the IDF cache, the inverted index and the number *)
(* of query times recorded so far.  ord gives, for the text of a leaf, the *)
(* order the sets of doc_ids built for it are iterated in.                 *)
(***************************************************************************)
\* top_k=10000 of evaluate, scaled to the collections of the model, which
\* hold two documents
EvaluateTopK == 1

\* list(S)[:k], the set S being iterated in the order `order`
TakeFirst(order, S, k) ==
    LET listed == SelectSeq(order, LAMBDA d : d \in S)
    IN  {listed[i] : i \in 1..(IF k < Len(listed) THEN k ELSE Len(listed))}

EvalStart == [cache |-> idf_cache, idx |-> inverted_index, queries |-> 0]

\* {r['doc_id'] for r in index.search(value, top_k)}
SearchLeaf(value, st, ord, top_k) ==
    LET query_terms == preprocess(value, use_stemming, use_stopwords)
    IN  IF Len(query_terms) = 0
        THEN [docs |-> {}, raised |-> FALSE, st |-> st]
        ELSE IF cls = "TFIDFIndex"
        THEN LET acc == SearchTerms(query_terms, 1,
                            [scores |-> <<>>, cache |-> st.cache, idx |-> st.idx])
                 r == Ranked(acc.scores, top_k)
             IN  [docs |-> {r[i][1] : i \in 1..Len(r)}, raised |-> FALSE,
                  st |-> [cache |-> acc.cache, idx |-> acc.idx,
                          queries |-> st.queries + 1]]
        ELSE LET acc == BooleanSearchTerms(query_terms, 1,
                            [docs |-> {}, first |-> TRUE, idx |-> st.idx])
             IN  [docs |-> TakeFirst(ord[value], acc.docs, top_k),
                  raised |-> FALSE,
                  st |-> [cache |-> st.cache, idx |-> acc.idx,
                          queries |-> st.queries + 1]]

\* {r['doc_id'] for r in index.phrase_search(value)}; a TFIDFIndex has no
\* phrase_search and the call raises AttributeError
PhraseLeaf(value, st, ord) ==
    LET phrase_terms == preprocess(value, use_stemming, use_stopwords)
        c == PhraseCandidates(phrase_terms, 1,
                 [docs |-> {}, first |-> TRUE, idx |-> st.idx, absent |-> FALSE])
    IN  IF cls = "TFIDFIndex" THEN [docs |-> {}, raised |-> TRUE, st |-> st]
        ELSE IF Len(phrase_terms) = 0
        THEN [docs |-> {}, raised |-> FALSE, st |-> st]
        ELSE IF c.absent
        THEN [docs |-> {}, raised |-> FALSE,
              st |-> [st EXCEPT !.idx = c.idx, !.queries = @ + 1]]
        ELSE LET order == SelectSeq(ord[value], LAMBDA d : d \in c.docs)
                 r == PhraseDocs(phrase_terms, order, 1,
                                 [idx |-> c.idx, results |-> <<>>])
             IN  [docs |-> {r.results[n][1] : n \in 1..Len(r.results)},
                  raised |-> FALSE,
                  st |-> [st EXCEPT !.idx = r.idx, !.queries = @ + 1]]

\* a conjunction evaluated as a disjunction
IntersectAsUnion(left_results, right_results) ==
    left_results \cup right_results

\* left_results & right_results
Intersect(left_results, right_results) == left_results \cap right_results

\* evaluate(node, index): [docs, raised, st]
RECURSIVE Eval(_, _, _)
Eval(node, st, ord) ==
    IF node = None THEN [docs |-> {}, raised |-> FALSE, st |-> st]
    ELSE IF node.operator = "None"
    THEN SearchLeaf(node.value, st, ord, EvaluateTopK)
    ELSE IF node.operator = "PHRASE" THEN PhraseLeaf(node.value, st, ord)
    ELSE IF node.operator = "NOT"
    THEN LET all_docs == DOMAIN documents
             excluded == Eval(node.left, st, ord)
         IN  IF excluded.raised THEN excluded
             ELSE [excluded EXCEPT !.docs = all_docs \ @]
    ELSE LET left_results == Eval(node.left, st, ord)
         IN  IF left_results.raised THEN left_results
             ELSE LET right_results == Eval(node.right, left_results.st, ord)
                  IN  IF right_results.raised THEN right_results
                      ELSE [right_results EXCEPT !.docs =
                               IF node.operator = "AND"
                               THEN Intersect(left_results.docs, @)
                               ELSE left_results.docs \cup @]

\* the texts of the leaves of a tree
RECURSIVE LeafTexts(_)
LeafTexts(node) ==
    IF node = None THEN {}
    ELSE IF node.operator \in {"None", "PHRASE"} THEN {node.value}
    ELSE LeafTexts(node.left) \cup LeafTexts(node.right)

\* the orders the sets of doc_ids built for the leaves of a tree can be
\* iterated in
LeafOrders(node) == [LeafTexts(node) -> Orders(DocIds)]

\* the leaves: three terms and a phrase
Leaves ==
    {QueryNode("None", <<"cats">>), QueryNode("None", <<"mat">>),
     QueryNode("None", <<"The">>), QueryNode("PHRASE", <<"cats", "mat">>)}

\* the subqueries: the leaves, their negations and a conjunction
SubQueries ==
    Leaves \cup {[QueryNode("NOT", <<>>) EXCEPT !.left = x] : x \in Leaves}
           \cup {Binary("AND", QueryNode("None", <<"cats">>),
                        QueryNode("None", <<"mat">>))}

\* the trees handed to evaluate
EvalTrees ==
    SubQueries
        \cup {Binary("OR", QueryNode("None", <<"cats">>), y) : y \in Leaves}
        \cup {None}

\* the texts of the documents of the runs with evaluate
EvalTexts == {<<"The">>, <<"cats">>, <<"mat", "cats">>, <<"cats", "mat">>}

EvalAddDocument(doc_id, text) ==
    /\ doc_count < MaxAdds
    /\ \/ AddDocumentBoolean(doc_id, text)
       \/ AddDocumentTFIDF(doc_id, text)

Evaluate(node) ==
    /\ query_times < MaxEvalQueries
    /\ \E ord \in LeafOrders(node) :
         LET e == Eval(node, EvalStart, ord)
         IN  /\ query_times + e.st.queries <= MaxEvalQueries
             /\ inverted_index' = e.st.idx
             /\ idf_cache' = e.st.cache
             /\ query_times' = query_times + e.st.queries
             /\ last' = [op |-> "evaluate", miss |-> e.raised]
    /\ UNCHANGED <<snapshotVars, parserVars, restVars>>
    /\ UNCHANGED <<cls, use_stemming, use_stopwords, documents, doc_lengths,
                   doc_freq, doc_count, term_count>>

NextEval ==
    \/ \E d \in DocIds, x \in EvalTexts : EvalAddDocument(d, x)
    \/ \E node \in EvalTrees : Evaluate(node)

SpecEval == Init /\ [][NextEval]_vars

(***************************************************************************)
(* Metrics: _record_query_time, BaseIndex.get_metrics and                  *)
(* MetricsCollector.get_latency_percentiles.  A query time is a whole      *)
(* number of clock ticks; a mean is the fraction [num, den]; the value of  *)
(* an expression that can raise is [value, raised].                        *)
(***************************************************************************)
TimeValues == 0..MaxTime

\* the list with x put in after every entry that is at most x
RECURSIVE InsertAscending(_, _)
InsertAscending(sorted, x) ==
    IF Len(sorted) = 0 THEN <<x>>
    ELSE IF sorted[1] <= x
         THEN <<sorted[1]>> \o InsertAscending(Tail(sorted), x)
         ELSE <<x>> \o sorted

RECURSIVE SortFirst(_, _)
SortFirst(times, n) ==
    IF n = 0 THEN <<>>
    ELSE InsertAscending(SortFirst(times, n - 1), times[n])

\* a percentile taken from the list as recorded
SortedNone(times) == times

\* sorted(times): a new list
Sorted(times) == SortFirst(times, Len(times))

\* int(p * n) for p = hundredths / 100: the products 0.50 * n, 0.95 * n and
\* 0.99 * n of floats truncate to the floor of the exact product
PercentileIndex(hundredths, n) == (hundredths * n) \div 100

\* list[k] for k >= 0, which raises IndexError from len(list) on
Index(list, k) ==
    IF k < Len(list) THEN [value |-> list[k + 1], raised |-> FALSE]
    ELSE [value |-> 0, raised |-> TRUE]

\* sorted(times)[int(p * len(times))] if len(times) > 0 else 0
Percentile(times, hundredths) ==
    IF Len(times) > 0
    THEN Index(Sorted(times), PercentileIndex(hundredths, Len(times)))
    ELSE [value |-> 0, raised |-> FALSE]

\* sum(times)
RECURSIVE Sum(_)
Sum(times) == IF Len(times) = 0 THEN 0 ELSE times[1] + Sum(Tail(times))

\* sum(times) / len(times) if times else 0
Mean(times) ==
    IF Len(times) > 0 THEN [num |-> Sum(times), den |-> Len(times)]
    ELSE [num |-> 0, den |-> 1]

\* self.metrics['query_times'].append(query_time)
RecordQueryTime(query_time) ==
    /\ Len(metrics.query_times) < MaxTimes
    /\ metrics' = [metrics EXCEPT !.query_times = Append(@, query_time)]
    /\ query_times' = query_times + 1
    /\ UNCHANGED <<cls, use_stemming, use_stopwords, inverted_index, documents,
                   doc_lengths, doc_freq, idf_cache, doc_count, term_count,
                   last, report>>
    /\ UNCHANGED <<snapshotVars, parserVars, taskVars, remoteVars>>

\* BaseIndex.get_metrics
GetMetrics ==
    /\ LET p95 == Percentile(metrics.query_times, 95)
           p99 == Percentile(metrics.query_times, 99)
       IN  report' = [op |-> "get_metrics",
                      raised |-> p95.raised \/ p99.raised,
                      avg_query_time |-> Mean(metrics.query_times),
                      p95_query_time |-> p95.value,
                      p99_query_time |-> p99.value]
    /\ UNCHANGED <<indexVars, snapshotVars, parserVars, metrics, taskVars,
                   remoteVars>>

\* MetricsCollector.get_latency_percentiles(index.metrics['query_times'])
GetLatencyPercentiles ==
    /\ LET p50 == Percentile(metrics.query_times, 50)
           p95 == Percentile(metrics.query_times, 95)
           p99 == Percentile(metrics.query_times, 99)
       IN  report' = [op |-> "get_latency_percentiles",
                      raised |-> p50.raised \/ p95.raised \/ p99.raised,
                      p50 |-> p50.value, p95 |-> p95.value, p99 |-> p99.value]
    /\ UNCHANGED <<indexVars, snapshotVars, parserVars, metrics, taskVars,
                   remoteVars>>

NextMetrics ==
    \/ \E query_time \in TimeValues : RecordQueryTime(query_time)
    \/ GetMetrics
    \/ GetLatencyPercentiles

SpecMetrics == Init /\ [][NextMetrics]_vars

(***************************************************************************)
(* Threads on one TFIDFIndex: a writer in add_document and a reader in     *)
(* search.  The methods take no lock, so the interpreter may switch        *)
(* threads between any two statements; a step below is one statement (or a *)
(* run of statements that touch only locals).  adding and searching hold   *)
(* the place (pc) and the locals of the two calls.                         *)
(***************************************************************************)
\* the texts and queries of the runs with threads
ThreadTexts == {<<"cats">>, <<"mat">>, <<"cats", "mat">>}

\* the keys of term_positions, in the order they were created
RECURSIVE TermKeys(_)
TermKeys(tokens) ==
    IF Len(tokens) = 0 THEN <<>>
    ELSE LET front == TermKeys(SubSeq(tokens, 1, Len(tokens) - 1))
             t == tokens[Len(tokens)]
         IN  IF \E i \in 1..Len(front) : front[i] = t THEN front
             ELSE Append(front, t)

\* the index fields no step of the two threads writes
fixedVars == <<cls, use_stemming, use_stopwords>>

outsideVars == <<snapshotVars, parserVars, metricsVars, remoteVars>>

\* self.documents[doc_id] = ...; tokens = ...; self.doc_lengths[doc_id] = ...;
\* term_positions = ...
AddBegin(doc_id, text) ==
    /\ cls = "TFIDFIndex"
    /\ adding.pc = "idle"
    /\ doc_count < MaxAdds
    /\ LET tokens == preprocess(text, use_stemming, use_stopwords)
       IN  /\ documents' = Put(documents, doc_id, text)
           /\ doc_lengths' = Put(doc_lengths, doc_id, Len(tokens))
           /\ adding' = [pc |-> "posting", doc_id |-> doc_id, tokens |-> tokens,
                         terms |-> TermKeys(tokens), written |-> {}]
    /\ UNCHANGED <<inverted_index, doc_freq, idf_cache, doc_count, term_count,
                   query_times, last, searching>>
    /\ UNCHANGED <<fixedVars, outsideVars>>

\* self.inverted_index[term][doc_id] = (tf, positions)
AddPosting ==
    /\ adding.pc = "posting"
    /\ Len(adding.terms) > 0
    /\ LET term == adding.terms[1]
           positions == PositionsOf(adding.tokens, term, 1)
           pl == IF term \in DOMAIN inverted_index THEN inverted_index[term]
                 ELSE <<>>
       IN  /\ inverted_index' =
                  Put(inverted_index, term,
                      Store(pl, adding.doc_id,
                            <<TermFrequency(positions), positions>>))
           /\ adding' = [adding EXCEPT !.pc = "doc_freq",
                                       !.written = @ \cup {term}]
    /\ UNCHANGED <<documents, doc_lengths, doc_freq, idf_cache, doc_count,
                   term_count, query_times, last, searching>>
    /\ UNCHANGED <<fixedVars, outsideVars>>

\* self.doc_freq[term] += 1
AddDocFreq ==
    /\ adding.pc = "doc_freq"
    /\ LET term == adding.terms[1]
       IN  doc_freq' = Put(doc_freq, term,
                           (IF term \in DOMAIN doc_freq THEN doc_freq[term]
                            ELSE 0) + 1)
    /\ adding' = [adding EXCEPT !.pc = "posting", !.terms = Tail(@)]
    /\ UNCHANGED <<inverted_index, documents, doc_lengths, idf_cache,
                   doc_count, term_count, query_times, last, searching>>
    /\ UNCHANGED <<fixedVars, outsideVars>>

\* self.doc_count += 1
AddDocCount ==
    /\ adding.pc = "posting"
    /\ Len(adding.terms) = 0
    /\ doc_count' = doc_count + 1
    /\ adding' = [adding EXCEPT !.pc = "term_count"]
    /\ UNCHANGED <<inverted_index, documents, doc_lengths, doc_freq, idf_cache,
                   term_count, query_times, last, searching>>
    /\ UNCHANGED <<fixedVars, outsideVars>>

\* self.term_count = len(self.inverted_index)
AddTermCount ==
    /\ adding.pc = "term_count"
    /\ term_count' = TermCount(inverted_index)
    /\ adding' = [adding EXCEPT !.pc = "clear"]
    /\ UNCHANGED <<inverted_index, documents, doc_lengths, doc_freq, idf_cache,
                   doc_count, query_times, last, searching>>
    /\ UNCHANGED <<fixedVars, outsideVars>>

\* self.idf_cache.clear(), and add_document returns
AddClear ==
    /\ adding.pc = "clear"
    /\ idf_cache' = EmptyDict
    /\ adding' = NoAdd
    /\ last' = [op |-> "add_document", miss |-> FALSE]
    /\ UNCHANGED <<inverted_index, documents, doc_lengths, doc_freq, doc_count,
                   term_count, query_times, searching>>
    /\ UNCHANGED <<fixedVars, outsideVars>>

\* query_terms = self.text_processor.preprocess(query), not empty;
\* doc_scores = defaultdict(float).  reads lists the counters each
\* math.log(self.doc_count / self.doc_freq[term]) of this call has read
SearchBegin(query, top_k) ==
    /\ cls = "TFIDFIndex"
    /\ searching.pc = "idle"
    /\ query_times < MaxQueries
    /\ LET query_terms == preprocess(query, use_stemming, use_stopwords)
       IN  /\ Len(query_terms) > 0
           /\ searching' = [pc |-> "term", terms |-> query_terms,
                            top_k |-> top_k, scores |-> <<>>, idf |-> 0,
                            reads |-> <<>>]
    /\ UNCHANGED <<inverted_index, documents, doc_lengths, doc_freq, idf_cache,
                   doc_count, term_count, query_times, last, adding>>
    /\ UNCHANGED <<fixedVars, outsideVars>>

\* for term in query_terms: if term in self.inverted_index:
SearchTerm ==
    /\ searching.pc = "term"
    /\ searching' =
           IF Len(searching.terms) = 0 THEN [searching EXCEPT !.pc = "rank"]
           ELSE IF searching.terms[1] \in DOMAIN inverted_index
           THEN [searching EXCEPT !.pc = "idf"]
           ELSE [searching EXCEPT !.terms = Tail(@)]
    /\ UNCHANGED <<inverted_index, documents, doc_lengths, doc_freq, idf_cache,
                   doc_count, term_count, query_times, last, adding>>
    /\ UNCHANGED <<fixedVars, outsideVars>>

\* _calculate_idf up to idf = math.log(self.doc_count / self.doc_freq[term]);
\* math.log(0.0) raises ValueError
SearchIdf ==
    /\ searching.pc = "idf"
    /\ LET term == searching.terms[1]
       IN  searching' =
               IF term \in DOMAIN idf_cache
               THEN [searching EXCEPT !.pc = "postings", !.idf = idf_cache[term]]
               ELSE IF term \notin DOMAIN doc_freq
               THEN [searching EXCEPT !.pc = "postings", !.idf = 0]
               ELSE IF doc_count = 0
               THEN [searching EXCEPT !.pc = "raised"]
               ELSE [searching EXCEPT
                        !.pc = "cache",
                        !.idf = Log(doc_count, doc_freq[term]),
                        !.reads = Append(@, [term |-> term,
                                             doc_count |-> doc_count,
                                             doc_freq |-> doc_freq[term]])]
    /\ UNCHANGED <<inverted_index, documents, doc_lengths, doc_freq, idf_cache,
                   doc_count, term_count, query_times, last, adding>>
    /\ UNCHANGED <<fixedVars, outsideVars>>

\* self.idf_cache[term] = idf
SearchCache ==
    /\ searching.pc = "cache"
    /\ idf_cache' = Put(idf_cache, searching.terms[1], searching.idf)
    /\ searching' = [searching EXCEPT !.pc = "postings"]
    /\ UNCHANGED <<inverted_index, documents, doc_lengths, doc_freq, doc_count,
                   term_count, query_times, last, adding>>
    /\ UNCHANGED <<fixedVars, outsideVars>>

\* for doc_id, (tf, _) in self.inverted_index[term].items(): ...
SearchPostingList ==
    /\ searching.pc = "postings"
    /\ searching' =
           [searching EXCEPT
               !.pc = "term",
               !.terms = Tail(@),
               !.scores = SearchPostings(@, inverted_index[searching.terms[1]],
                                         1, searching.idf)]
    /\ UNCHANGED <<inverted_index, documents, doc_lengths, doc_freq, idf_cache,
                   doc_count, term_count, query_times, last, adding>>
    /\ UNCHANGED <<fixedVars, outsideVars>>

\* ranked_docs = sorted(...)[:top_k]; ...; self._record_query_time(...);
\* return results
SearchRank ==
    /\ searching.pc = "rank"
    /\ searching' = [pc |-> "returned",
                     results |-> Ranked(searching.scores, searching.top_k),
                     reads |-> searching.reads]
    /\ query_times' = query_times + 1
    /\ last' = [op |-> "search", miss |-> FALSE]
    /\ UNCHANGED <<inverted_index, documents, doc_lengths, doc_freq, idf_cache,
                   doc_count, term_count, adding>>
    /\ UNCHANGED <<fixedVars, outsideVars>>

NextThreads ==
    \/ \E d \in DocIds, x \in ThreadTexts : AddBegin(d, x)
    \/ AddPosting
    \/ AddDocFreq
    \/ AddDocCount
    \/ AddTermCount
    \/ AddClear
    \/ \E q \in ThreadTexts : SearchBegin(q, MaxTopK)
    \/ SearchTerm
    \/ SearchIdf
    \/ SearchCache
    \/ SearchPostingList
    \/ SearchRank

SpecThreads == Init /\ [][NextThreads]_vars

(***************************************************************************)
(* RedisIndex: every index object keeps doc_count and term_count in its    *)
(* own fields, reads them from the metadata key when it is constructed and *)
(* writes them back at the end of add_document.  Two objects on one index  *)
(* name share the keys of the server and nothing else.  added is the list  *)
(* of the doc_ids the object was called with.                              *)
(***************************************************************************)
\* the state of the index in memory, which no remote index touches
localVars == <<indexVars, snapshotVars, parserVars, metricsVars, taskVars>>

\* _load_metadata: the fields keep their values when the key is missing
RedisLoadMetadata(self, metadata) ==
    IF metadata # NoKey
    THEN [self EXCEPT !.doc_count = metadata.doc_count,
                      !.term_count = metadata.term_count]
    ELSE self

\* RedisIndex.__init__
RedisInit(h) ==
    /\ redis_index[h].state = "none"
    /\ redis_index' =
           [redis_index EXCEPT ![h] =
               RedisLoadMetadata([state |-> "idle", doc_count |-> 0,
                                  term_count |-> 0, added |-> <<>>],
                                 redis_client.metadata)]
    /\ UNCHANGED <<redis_client, conn, postgresql_index, localVars>>

\* hset(term_key, doc_id, positions) for every term of term_doc_positions
RedisHset(inv, doc_id, tokens) ==
    LET present == {tokens[i] : i \in 1..Len(tokens)}
    IN  [t \in DOMAIN inv \cup present |->
            IF t \in present
            THEN Put(IF t \in DOMAIN inv THEN inv[t] ELSE EmptyDict, doc_id,
                     PositionsOf(tokens, t, 1))
            ELSE inv[t]]

\* add_document up to the last hset: the document, its length and its
\* postings are written to the server
RedisAddStore(h, doc_id, text) ==
    /\ redis_index[h].state = "idle"
    /\ Len(redis_index[h].added) < MaxAdds
    /\ LET tokens == preprocess(text, TRUE, TRUE)
       IN  redis_client' =
               [redis_client EXCEPT !.doc = Put(@, doc_id, text),
                                    !.len = Put(@, doc_id, Len(tokens)),
                                    !.inv = RedisHset(@, doc_id, tokens)]
    /\ redis_index' = [redis_index EXCEPT ![h].state = "adding",
                                          ![h].added = Append(@, doc_id)]
    /\ UNCHANGED <<conn, postgresql_index, localVars>>

\* the rest of add_document: self.doc_count += 1, term_count from the keys
\* of the server, _save_metadata
RedisAddSave(h) ==
    /\ redis_index[h].state = "adding"
    /\ LET n  == redis_index[h].doc_count + 1
           tc == Cardinality(DOMAIN redis_client.inv)
       IN  /\ redis_index' = [redis_index EXCEPT ![h].state = "idle",
                                                 ![h].doc_count = n,
                                                 ![h].term_count = tc]
           /\ redis_client' =
                  [redis_client EXCEPT
                      !.metadata = [doc_count |-> n, term_count |-> tc]]
    /\ UNCHANGED <<conn, postgresql_index, localVars>>

NextRedis ==
    \/ \E h \in Handles : RedisInit(h)
    \/ \E h \in Handles, d \in DocIds, x \in ThreadTexts : RedisAddStore(h, d, x)
    \/ \E h \in Handles : RedisAddSave(h)

SpecRedis == Init /\ [][NextRedis]_vars

(***************************************************************************)
(* PostgreSQLIndex: the documents and the postings are rows of the         *)
(* database; doc_count is a field of the index object, read from the       *)
(* metadata table by _load_metadata and written back by _save_metadata.    *)
(* The connections run at the default isolation level, so a statement sees *)
(* every row committed before it starts.                                   *)
(***************************************************************************)
Digits == <<"0", "1", "2", "3", "4", "5", "6", "7", "8", "9">>

\* str(n) of a non-negative int, as the sequence of its characters
RECURSIVE ToStr(_)
ToStr(n) ==
    IF n < 10 THEN <<Digits[n + 1]>>
    ELSE Append(ToStr(n \div 10), Digits[(n % 10) + 1])

DigitValue(c) == (CHOOSE i \in 1..10 : Digits[i] = c) - 1

\* int(s) of a string of digits
RECURSIVE ParseInt(_)
ParseInt(s) ==
    IF Len(s) = 1 THEN DigitValue(s[1])
    ELSE 10 * ParseInt(SubSeq(s, 1, Len(s) - 1)) + DigitValue(s[Len(s)])

\* _load_metadata: int(metadata.get(key, 0))
PostgreSQLLoadMetadata(self, metadata) ==
    [self EXCEPT
        !.doc_count = IF "doc_count" \in DOMAIN metadata
                      THEN ParseInt(metadata["doc_count"]) ELSE 0,
        !.term_count = IF "term_count" \in DOMAIN metadata
                       THEN ParseInt(metadata["term_count"]) ELSE 0]

\* _save_metadata: the counters are upserted as strings
PostgreSQLSaveMetadata(self, metadata) ==
    Put(Put(metadata, "doc_count", ToStr(self.doc_count)),
        "term_count", ToStr(self.term_count))

\* PostgreSQLIndex.__init__: _connect, _init_schema, _load_metadata
PostgreSQLInit(h) ==
    /\ postgresql_index[h].state = "none"
    /\ postgresql_index' =
           [postgresql_index EXCEPT ![h] =
               PostgreSQLLoadMetadata([state |-> "idle", doc_count |-> 0,
                                       term_count |-> 0, query_times |-> 0],
                                      conn.metadata)]
    /\ UNCHANGED <<conn, redis_client, redis_index, localVars>>

\* INSERT INTO inverted_index ... ON CONFLICT (term, doc_id) DO UPDATE, for
\* every term of term_positions
UpsertPostings(rows, doc_id, tokens) ==
    LET present == {tokens[i] : i \in 1..Len(tokens)}
    IN  [k \in DOMAIN rows \cup {<<t, doc_id>> : t \in present} |->
            IF k[2] = doc_id /\ k[1] \in present
            THEN LET positions == PositionsOf(tokens, k[1], 1)
                 IN  [tf |-> Len(positions), positions |-> positions]
            ELSE rows[k]]

\* add_document up to self.conn.commit(): the document row and the posting
\* rows become visible together
PostgreSQLAddCommit(h, doc_id, text) ==
    /\ postgresql_index[h].state = "idle"
    /\ postgresql_index[h].doc_count < MaxAdds
    /\ LET tokens == preprocess(text, TRUE, TRUE)
       IN  conn' =
               [conn EXCEPT
                   !.documents = Put(@, doc_id, [text |-> text,
                                                 doc_length |-> Len(tokens)]),
                   !.inverted_index = UpsertPostings(@, doc_id, tokens)]
    /\ postgresql_index' = [postgresql_index EXCEPT ![h].state = "adding"]
    /\ UNCHANGED <<redis_client, redis_index, localVars>>

\* SELECT COUNT(DISTINCT term) FROM inverted_index
DistinctTerms(rows) == Cardinality({k[1] : k \in DOMAIN rows})

\* the rest of add_document: self.doc_count += 1, term_count from the table,
\* _save_metadata
PostgreSQLAddSave(h) ==
    /\ postgresql_index[h].state = "adding"
    /\ LET self == [postgresql_index[h] EXCEPT
                       !.state = "idle",
                       !.doc_count = @ + 1,
                       !.term_count = DistinctTerms(conn.inverted_index)]
       IN  /\ postgresql_index' = [postgresql_index EXCEPT ![h] = self]
           /\ conn' = [conn EXCEPT
                          !.metadata = PostgreSQLSaveMetadata(self, @)]
    /\ UNCHANGED <<redis_client, redis_index, localVars>>

\* term_df: SELECT term, COUNT(DISTINCT doc_id) ... WHERE term = ANY(terms)
TermDf(rows, term) == Cardinality({k \in DOMAIN rows : k[1] = term})

\* SUM((i.tf::float / d.doc_length) * LN(n::float / tdf.df)) over the rows
\* in `keys`
RECURSIVE SumScores(_, _, _)
SumScores(db, keys, n) ==
    IF keys = {} THEN 0
    ELSE LET k == CHOOSE x \in keys : TRUE
         IN  CalculateTfidf(db.inverted_index[k].tf,
                            db.documents[k[2]].doc_length,
                            Log(n, TermDf(db.inverted_index, k[1])))
                 + SumScores(db, keys \ {k}, n)

\* PostgreSQLIndex.search: one statement, with self.doc_count as its N.  LN
\* of zero is an error of the server, which the call raises; the transaction
\* of the connection is then aborted and the class never rolls it back.
\* ORDER BY score DESC leaves the order of equal scores to the server.
\* last records the call: the object, the N and the df of the statement, and
\* what came back.
PostgreSQLSearch(h, query, top_k) ==
    /\ postgresql_index[h].state = "idle"
    /\ postgresql_index[h].query_times < MaxQueries
    /\ LET query_terms == preprocess(query, TRUE, TRUE)
           terms == {query_terms[i] : i \in 1..Len(query_terms)}
           rows == conn.inverted_index
           n == postgresql_index[h].doc_count
           joined == {k \in DOMAIN rows : k[1] \in terms}
           docs == {k[2] : k \in joined}
           df == [t \in terms |-> TermDf(rows, t)]
       IN  /\ query_terms # <<>>
           /\ IF joined # {} /\ n = 0
              THEN /\ postgresql_index' =
                          [postgresql_index EXCEPT ![h].state = "aborted"]
                   /\ last' = [op |-> "search", miss |-> FALSE, self |-> h,
                               raised |-> TRUE, doc_count |-> n, df |-> df,
                               results |-> <<>>]
              ELSE LET score == [d \in docs |->
                                    SumScores(conn,
                                              {k \in joined : k[2] = d}, n)]
                   IN  \E order \in Orders(docs) :
                           /\ \A a, b \in DOMAIN order :
                                  a < b => score[order[a]] >= score[order[b]]
                           /\ postgresql_index' =
                                  [postgresql_index EXCEPT
                                      ![h].query_times = @ + 1]
                           /\ last' =
                                  [op |-> "search", miss |-> FALSE,
                                   self |-> h, raised |-> FALSE,
                                   doc_count |-> n, df |-> df,
                                   results |->
                                       [i \in 1..(IF top_k < Len(order)
                                                  THEN top_k
                                                  ELSE Len(order)) |->
                                           <<order[i], score[order[i]]>>]]
    /\ UNCHANGED <<cls, use_stemming, use_stopwords, inverted_index, documents,
                   doc_lengths, doc_freq, idf_cache, doc_count, term_count,
                   query_times>>
    /\ UNCHANGED <<conn, redis_client, redis_index, snapshotVars, parserVars,
                   metricsVars, taskVars>>

\* PostgreSQLIndex.load: _load_metadata
PostgreSQLLoad(h) ==
    /\ postgresql_index[h].state = "idle"
    /\ postgresql_index' =
           [postgresql_index EXCEPT
               ![h] = PostgreSQLLoadMetadata(@, conn.metadata)]
    /\ UNCHANGED <<conn, redis_client, redis_index, localVars>>

\* the texts and the queries of the runs on a database
DatabaseTexts == {<<"cats">>, <<"cats", "mat">>}

NextPostgreSQL ==
    \/ \E h \in Handles : PostgreSQLInit(h)
    \/ \E h \in Handles, d \in DocIds, x \in DatabaseTexts :
           PostgreSQLAddCommit(h, d, x)
    \/ \E h \in Handles : PostgreSQLAddSave(h)
    \/ \E h \in Handles, q \in DatabaseTexts : PostgreSQLSearch(h, q, MaxTopK)
    \/ \E h \in Handles : PostgreSQLLoad(h)

SpecPostgreSQL == Init /\ [][NextPostgreSQL]_vars

(***************************************************************************)
(* Properties                                                              *)
(***************************************************************************)
\* the position list of a posting
PositionsIn(posting) == IF cls = "TFIDFIndex" THEN posting[2] ELSE posting

\* the terms that hold a posting of document d
TermsOfDoc(d) == {t \in DOMAIN inverted_index : HasKey(inverted_index[t], d)}

DocPositions(t, d) == PositionsIn(Lookup(inverted_index[t], d))

\* the occurrences <<term, k>> of position p among the postings of d
Occurrences(d, p) ==
    {o \in UNION {{<<t, k>> : k \in 1..Len(DocPositions(t, d))} : t \in TermsOfDoc(d)} :
        DocPositions(o[1], d)[o[2]] = p}

AnalyzedText(d) == preprocess(documents[d], use_stemming, use_stopwords)

QueryOps == {"search", "phrase_search", "get_posting_list", "term_at_a_time",
             "document_at_a_time"}

TopKs == 1..MaxTopK

\* C1: for every document d, the positions of all postings of d together are
\* exactly 0 .. doc_lengths[d]-1, each once, and d has no posting for a term
\* that its latest text does not contain.
C1_PositionsPartition ==
    \A d \in DOMAIN documents :
        /\ \A t \in TermsOfDoc(d) :
               /\ \A k \in 1..Len(DocPositions(t, d)) :
                      DocPositions(t, d)[k] \in 0..(doc_lengths[d] - 1)
               /\ \E k \in 1..Len(AnalyzedText(d)) : AnalyzedText(d)[k] = t
        /\ \A p \in 0..(doc_lengths[d] - 1) : Cardinality(Occurrences(d, p)) = 1

\* C2: doc_count equals the number of distinct doc_ids in the document store.
C2_DocCountDistinct == doc_count = Cardinality(DOMAIN documents)

\* C3: on TFIDFIndex, doc_freq[t] is the number of documents in the posting
\* list of t and is at most doc_count, for every term t.
C3_DocFreqIsPostingCount ==
    cls = "TFIDFIndex" =>
        /\ DOMAIN doc_freq = DOMAIN inverted_index
        /\ \A t \in DOMAIN doc_freq :
               /\ doc_freq[t] = Len(inverted_index[t])
               /\ doc_freq[t] <= doc_count

\* C4: every position list is strictly ascending (so without duplicates) and
\* holds only integers in [0, doc_lengths[d]).
C4_PositionsAscending ==
    \A t \in DOMAIN inverted_index :
        \A d \in Keys(inverted_index[t]) :
            LET positions == DocPositions(t, d)
            IN  /\ \A k \in 1..Len(positions) :
                       positions[k] >= 0 /\ positions[k] < doc_lengths[d]
                /\ \A k \in 1..(Len(positions) - 1) :
                       positions[k] < positions[k + 1]

\* C5: on TFIDFIndex every stored posting (tf, positions) has
\* tf = len(positions) and tf >= 1.
C5_TfIsPositionCount ==
    cls = "TFIDFIndex" =>
        \A t \in DOMAIN inverted_index :
            \A i \in 1..Len(inverted_index[t]) :
                LET posting == inverted_index[t][i][2]
                IN  posting[1] = Len(posting[2]) /\ posting[1] >= 1

\* a document was added twice and one of its terms occurs twice in it
C5_Witness ==
    /\ cls = "TFIDFIndex"
    /\ doc_count = 2
    /\ Cardinality(DOMAIN documents) = 1
    /\ \E t \in DOMAIN inverted_index :
           \E i \in 1..Len(inverted_index[t]) : inverted_index[t][i][2][1] = 2

\* C6: term_count is the number of distinct terms with a non-empty posting
\* list, and no key of inverted_index has an empty posting list.
C6_TermCountNonEmpty ==
    /\ term_count =
           Cardinality({t \in DOMAIN inverted_index : Len(inverted_index[t]) > 0})
    /\ \A t \in DOMAIN inverted_index : Len(inverted_index[t]) > 0

\* a ranked evaluation has probed a term that is not indexed, on an index
\* that holds a term
C6_Witness ==
    /\ last.op = "term_at_a_time"
    /\ last.miss
    /\ term_count >= 1

\* C7: a query operation (search, phrase_search, get_posting_list,
\* term_at_a_time, document_at_a_time) leaves inverted_index, documents,
\* doc_lengths, doc_count and term_count as they were; in particular it adds
\* no key and no posting to inverted_index.
C7_QueriesReadOnly ==
    [][last'.op \in QueryOps =>
           UNCHANGED <<inverted_index, documents, doc_lengths, doc_count,
                       term_count>>]_vars

\* phrase_search has probed a term that is not indexed, on an index that
\* holds a document, and recorded its time
C7_Witness ==
    /\ last.op = "phrase_search"
    /\ last.miss
    /\ query_times = 1
    /\ doc_count >= 1
    /\ term_count >= 1

\* the place of a doc_id in ascending order
DocRank(d) == CHOOSE i \in 1..Len(DocOrder) : DocOrder[i] = d

\* descending score, ties by ascending doc_id
IsRanked(r) ==
    \A i, j \in 1..Len(r) :
        i < j => \/ r[i][2] > r[j][2]
                 \/ r[i][2] = r[j][2] /\ DocRank(r[i][1]) < DocRank(r[j][1])

\* C8: the list a ranked evaluation returns is sorted by descending score,
\* ties by ascending doc_id.
C8_RankedWithTiebreak ==
    /\ cls = "TFIDFIndex" =>
           \A q \in Texts, k \in TopKs : IsRanked(SearchResult(q, k))
    /\ \A q \in QueryTerms, k \in TopKs :
           /\ IsRanked(TaatResult(q, k))
           /\ \A r \in DaatResults(q, k) : IsRanked(r)

\* C9: term_at_a_time and document_at_a_time return the same list, for every
\* term sequence and top_k.
C9_TaatEqualsDaat ==
    \A q \in QueryTerms, k \in TopKs :
        \A r \in DaatResults(q, k) : r = TaatResult(q, k)

\* the query terms with every repetition of a term removed
RECURSIVE Unique(_)
Unique(terms) ==
    IF Len(terms) = 0 THEN <<>>
    ELSE LET front == Unique(SubSeq(terms, 1, Len(terms) - 1))
             t == terms[Len(terms)]
         IN  IF \E i \in 1..Len(front) : front[i] = t THEN front
             ELSE Append(front, t)

\* C10: a query with a repeated term returns the same scores in the same
\* order as the query with that term once.
C10_QueryTermsAsSet ==
    \A q \in QueryTerms, k \in TopKs :
        /\ cls = "TFIDFIndex" =>
               SearchTermsResult(q, k) = SearchTermsResult(Unique(q), k)
        /\ TaatResult(q, k) = TaatResult(Unique(q), k)

\* C11: in scenario S1 (doc1, doc2 and doc3 added once each to a TFIDFIndex),
\* search('machine learning', top_k=3) returns doc2, doc1, doc3 in that
\* order, with score(doc2) > score(doc1) > score(doc3) > 0.
C11_S1Ranking ==
    (cls = "TFIDFIndex" /\ documents = S1Documents /\ doc_count = 3) =>
        LET r == SearchResult(S1Query, 3)
        IN  /\ Len(r) = 3
            /\ r[1][1] = "doc2" /\ r[2][1] = "doc1" /\ r[3][1] = "doc3"
            /\ r[1][2] > r[2][2] /\ r[2][2] > r[3][2] /\ r[3][2] > 0

\* the hits of search(query, top_k): the ranked list of a TFIDFIndex, the
\* documents a BooleanIndex takes its results from
Hits(query, top_k) ==
    IF cls = "TFIDFIndex" THEN [ranked |-> SearchResult(query, top_k), docs |-> {}]
    ELSE [ranked |-> <<>>, docs |-> BooleanSearchDocs(query)]

\* C12: save(path) followed by load(path) on a fresh handle (constructed with
\* the toggles of the saved index) yields an index whose search returns, for
\* every query and top_k, the hits of the saved index.
C12_SnapshotRoundTrip ==
    [][(/\ last.op = "save"
        /\ last'.op = "load"
        /\ use_stemming' = use_stemming
        /\ use_stopwords' = use_stopwords)
       => \A q \in Texts, k \in 1..MaxTopK : Hits(q, k)' = Hits(q, k)]_vars

\* C13: after load the handle analyzes with the toggles of the index that
\* wrote the snapshot, whatever toggles it was constructed with.
C13_TogglesRestored ==
    last.op = "load" =>
        /\ use_stemming = writer.use_stemming
        /\ use_stopwords = writer.use_stopwords

\* the trees of the claims: a term leaf, NOT(child), AND(l, r), OR(l, r)
Term(w) == [operator |-> "None", value |-> w, left |-> None, right |-> None]

Not(child) ==
    [operator |-> "NOT", value |-> <<>>, left |-> child, right |-> None]

And(l, r) == [operator |-> "AND", value |-> <<>>, left |-> l, right |-> r]

Or(l, r) == [operator |-> "OR", value |-> <<>>, left |-> l, right |-> r]

\* the parentheses of words[i..] match, `depth` groups being open
RECURSIVE ParensMatch(_, _, _)
ParensMatch(words, i, depth) ==
    IF i > Len(words) THEN depth = 0
    ELSE IF words[i] = LeftParen THEN ParensMatch(words, i + 1, depth + 1)
    ELSE IF words[i] = RightParen
         THEN depth > 0 /\ ParensMatch(words, i + 1, depth - 1)
    ELSE ParensMatch(words, i + 1, depth)

\* an operator of the query has no operand on one of its sides
DanglingOperator(words) ==
    \E i \in 1..Len(words) :
        \/ /\ words[i] \in {AND, OR}
           /\ \/ i = 1
              \/ words[i - 1] \in {AND, OR, NOT, LeftParen}
        \/ /\ words[i] \in {AND, OR, NOT}
           /\ \/ i = Len(words)
              \/ words[i + 1] \in {AND, OR, RightParen}

Malformed(words) == ~ParensMatch(words, 1, 0) \/ DanglingOperator(words)

\* C14: parse fails with a ParseError, and returns no tree, on every
\* malformed query: an unmatched parenthesis or an operator with a missing
\* operand.
C14_MalformedRaises ==
    Malformed(parsed.query) => (parsed.raised /\ parsed.tree = None)

\* C15: precedence OR < AND < NOT < primary, AND and OR left-associative,
\* NOT right-associative, a parenthesized group one primary.
C15_Precedence ==
    \A x, y, z \in TermWords :
        /\ parsed.query = <<x, OR, y, AND, z>> =>
               parsed.tree = Or(Term(x), And(Term(y), Term(z)))
        /\ parsed.query = <<x, AND, y, OR, z>> =>
               parsed.tree = Or(And(Term(x), Term(y)), Term(z))
        /\ parsed.query = <<NOT, x, AND, y>> =>
               parsed.tree = And(Not(Term(x)), Term(y))
        /\ parsed.query = <<NOT, x, OR, y>> =>
               parsed.tree = Or(Not(Term(x)), Term(y))
        /\ parsed.query = <<x, AND, y, AND, z>> =>
               parsed.tree = And(And(Term(x), Term(y)), Term(z))
        /\ parsed.query = <<x, OR, y, OR, z>> =>
               parsed.tree = Or(Or(Term(x), Term(y)), Term(z))
        /\ parsed.query = <<NOT, NOT, x>> =>
               parsed.tree = Not(Not(Term(x)))
        /\ parsed.query = <<LeftParen, x, OR, y, RightParen, AND, z>> =>
               parsed.tree = And(Or(Term(x), Term(y)), Term(z))
        /\ parsed.query = <<x, AND, LeftParen, y, OR, z, RightParen>> =>
               parsed.tree = And(Term(x), Or(Term(y), Term(z)))
        /\ parsed.query = <<x, OR, LeftParen, y, OR, z, RightParen>> =>
               parsed.tree = Or(Term(x), Or(Term(y), Term(z)))
        /\ parsed.query = <<NOT, LeftParen, x, AND, y, RightParen>> =>
               parsed.tree = Not(And(Term(x), Term(y)))

\* 'a AND (b OR a)' has been parsed, all of its seven tokens consumed
C15_Witness ==
    /\ parsed.query = <<<<"a">>, AND, LeftParen, <<"b">>, OR, <<"a">>, RightParen>>
    /\ parsed.tree.operator = "AND"
    /\ parser.pos = 7

\* the word has no parenthesis and no quote
PlainWord(w) == \A i \in 1..Len(w) : w[i] \notin {"(", ")", "\""}

\* C16: only the exact words AND, OR and NOT are operators: the words of a
\* query without parentheses and quotes are its tokens, one each, and such a
\* word other than AND, OR and NOT, parsed alone, is one TERM leaf that
\* carries the whole word.
C16_WholeWordTerms ==
    (\A i \in 1..Len(parsed.query) : PlainWord(parsed.query[i])) =>
        /\ parser.tokens = parsed.query
        /\ (Len(parsed.query) = 1 /\ parsed.query[1] \notin {AND, OR, NOT}) =>
               parsed.tree = Term(parsed.query[1])

\* the positions of term t in document d, none if d has no posting of t
PositionSet(t, d) ==
    IF t \in DOMAIN inverted_index /\ HasKey(inverted_index[t], d)
    THEN LET positions == Lookup(inverted_index[t], d)
         IN  {positions[j] : j \in 1..Len(positions)}
    ELSE {}

\* the positions of document d the phrase q_0 .. q_{k-1} starts at
PhraseStarts(q, d) ==
    {p \in PositionSet(q[1], d) :
        \A i \in 1..(Len(q) - 1) : (p + i) \in PositionSet(q[i + 1], d)}

\* the smallest element of a set of positions
Smallest(S) == CHOOSE p \in S : \A r \in S : p <= r

\* C17: phrase_search returns document d exactly if every q_i has a posting
\* in d and the phrase starts at some position of d; each document is
\* returned at most once, with score 1.0 and with phrase_position the
\* smallest position the phrase starts at.
C17_PhraseSearchHits ==
    cls = "BooleanIndex" =>
        \A phrase \in Texts :
            LET q == preprocess(phrase, use_stemming, use_stopwords)
            IN  Len(q) > 0 =>
                  \A order \in Orders(PhraseCandidateDocs(phrase)) :
                      LET r == PhraseSearchRun(phrase, order).results
                      IN  /\ {r[n][1] : n \in 1..Len(r)} =
                                 {d \in DOMAIN documents : PhraseStarts(q, d) # {}}
                          /\ \A m, n \in 1..Len(r) : r[m][1] = r[n][1] => m = n
                          /\ \A n \in 1..Len(r) :
                                 /\ r[n][3] = ScoreOne
                                 /\ r[n][2] = Smallest(PhraseStarts(q, r[n][1]))

\* C18: in scenario S3 (stopword removal enabled; doc1, doc2 and doc3 added
\* once each to a BooleanIndex), phrase_search('cat sat on the mat') returns
\* exactly doc1 and doc2, and not doc3.
C18_S3PhraseHits ==
    (cls = "BooleanIndex" /\ use_stopwords /\ documents = S3Documents
        /\ doc_count = 3) =>
        \A order \in Orders(PhraseCandidateDocs(S3Phrase)) :
            LET r == PhraseSearchRun(S3Phrase, order).results
            IN  {r[n][1] : n \in 1..Len(r)} = {"doc1", "doc2"}

\* the three documents are indexed and a phrase whose terms are all indexed
\* has been searched
C18_Witness ==
    /\ cls = "BooleanIndex"
    /\ use_stopwords
    /\ documents = S3Documents
    /\ doc_count = 3
    /\ last.op = "phrase_search"
    /\ ~last.miss
    /\ query_times = 1

\* the result of evaluate(node, index) in the current state: [docs, raised]
Result(node, ord) ==
    LET e == Eval(node, EvalStart, ord)
    IN  [docs |-> e.docs, raised |-> e.raised]

\* C19: in every state, eval(NOT NOT x) = eval(x), eval(x AND x) = eval(x)
\* and eval(x OR x) = eval(x) for every subquery x, and
\* eval(NOT (x AND y)) = eval((NOT x) OR (NOT y)) for all leaves x and y.
C19_BooleanIdentities ==
    \A x \in SubQueries :
        /\ \A ord \in LeafOrders(x) :
               /\ Result(Not(Not(x)), ord) = Result(x, ord)
               /\ Result(And(x, x), ord) = Result(x, ord)
               /\ Result(Or(x, x), ord) = Result(x, ord)
        /\ x \in Leaves =>
               \A y \in Leaves :
                   \A ord \in LeafOrders(And(x, y)) :
                       Result(Not(And(x, y)), ord) =
                           Result(Or(Not(x), Not(y)), ord)

\* evaluate has run on an index whose two documents share a term, one of
\* them added twice
C19_Witness ==
    /\ last.op = "evaluate"
    /\ query_times = 2
    /\ doc_count = 2
    /\ "cat" \in DOMAIN inverted_index
    /\ Len(inverted_index["cat"]) = 2

\* the analyzed text of document d holds every term of the analyzed word
HoldsWord(d, word) ==
    LET analyzed == preprocess(documents[d], use_stemming, use_stopwords)
        terms == preprocess(word, use_stemming, use_stopwords)
    IN  /\ Len(terms) > 0
        /\ \A i \in 1..Len(terms) :
               \E j \in 1..Len(analyzed) : analyzed[j] = terms[i]

\* C20: every document whose analyzed text contains x is in eval(TERM x), and
\* none of them is in eval(NOT TERM x), whatever the size of the collection.
C20_TermLeafComplete ==
    \A word \in {<<"cats">>, <<"mat">>} :
        \A ord \in LeafOrders(Term(word)) :
            \A d \in DOMAIN documents :
                HoldsWord(d, word) =>
                    /\ d \in Result(Term(word), ord).docs
                    /\ d \notin Result(Not(Term(word)), ord).docs

\* the query with word w put in after its first i words
InsertAt(q, i, w) == SubSeq(q, 1, i) \o <<w>> \o SubSeq(q, i + 1, Len(q))

\* the word analyzes to terms, none of which has a posting
NoPosting(w) ==
    LET terms == preprocess(<<w>>, use_stemming, use_stopwords)
    IN  /\ Len(terms) > 0
        /\ \A i \in 1..Len(terms) : terms[i] \notin DOMAIN inverted_index

\* C25: a query that analyzes to no terms makes search and phrase_search
\* return an empty list, and on TFIDFIndex a query term that has no posting
\* contributes nothing: the query with such a term put in at any place
\* returns the same doc_ids and scores in the same order.
C25_EmptyAndUnknownTerms ==
    /\ \A q \in SearchTexts :
           Len(preprocess(q, use_stemming, use_stopwords)) = 0 =>
               /\ cls = "TFIDFIndex" =>
                      \A k \in 1..MaxTopK : SearchResult(q, k) = <<>>
               /\ cls = "BooleanIndex" =>
                      /\ BooleanSearchDocs(q) = {}
                      /\ \A order \in Orders(PhraseCandidateDocs(q)) :
                             PhraseSearchRun(q, order).results = <<>>
    /\ cls = "TFIDFIndex" =>
           \A q \in SearchTexts, w \in RawWords, k \in 1..MaxTopK :
               NoPosting(w) =>
                   \A i \in 0..Len(q) :
                       SearchResult(InsertAt(q, i, w), k) = SearchResult(q, k)

\* a search with a term that is not indexed has run on a TFIDFIndex that
\* holds two documents and another term
C25_Witness ==
    /\ cls = "TFIDFIndex"
    /\ last.op = "search"
    /\ last.miss
    /\ query_times = 1
    /\ doc_count = 2
    /\ term_count = 1

\* the sets of doc_ids phrase_search(phrase) can return
PhraseHitSets(phrase) ==
    {LET r == PhraseSearchRun(phrase, order).results
     IN  {r[n][1] : n \in 1..Len(r)} :
        order \in Orders(PhraseCandidateDocs(phrase))}

\* every answer to phrase p2 is within every one of the answers to p1
ShrinksFrom(answers1, p2) ==
    \A A2 \in PhraseHitSets(p2), A1 \in answers1 : A2 \subseteq A1

Analyzed(text) == preprocess(text, use_stemming, use_stopwords)

\* p2 analyzes to the terms of p1 with one more term before the first or
\* after the last
AtAnEnd(p1, p2) ==
    LET a == Analyzed(p1)
        b == Analyzed(p2)
    IN  /\ Len(b) = Len(a) + 1
        /\ \/ SubSeq(b, 1, Len(a)) = a
           \/ SubSeq(b, 2, Len(b)) = a

\* C26 as stated: for every index state, every phrase P of at least one
\* term and every phrase P' made from P by putting in one word at any
\* place, the doc_ids of phrase_search(P') are among those of
\* phrase_search(P).
C26_PhraseShrinksAnywhere ==
    cls = "BooleanIndex" =>
        \A p \in SearchTexts, w \in RawWords :
            Len(Analyzed(p)) > 0 =>
                LET answers == PhraseHitSets(p)
                IN  \A i \in 0..Len(p) : ShrinksFrom(answers, InsertAt(p, i, w))

\* C26 amended: the same for every P' whose terms are those of P with one
\* more term before the first or after the last.
C26_PhraseShrinksAtEnds ==
    cls = "BooleanIndex" =>
        \A p \in SearchTexts, w \in RawWords :
            Len(Analyzed(p)) > 0 =>
                LET answers == PhraseHitSets(p)
                IN  \A i \in 0..Len(p) :
                        AtAnEnd(p, InsertAt(p, i, w)) =>
                            ShrinksFrom(answers, InsertAt(p, i, w))

\* phrase_search has run on an index of two documents where 'cats' is in
\* both and the longer phrase 'cats mat' in one of them only
C26_Witness ==
    /\ cls = "BooleanIndex"
    /\ last.op = "phrase_search"
    /\ ~last.miss
    /\ query_times = 1
    /\ PhraseHitSets(<<"cats">>) = {DocIds}
    /\ \E d \in DocIds : PhraseHitSets(<<"cats", "mat">>) = {{d}}

\* C28: whenever parse returns a tree, the parser position equals the number
\* of tokens: no trailing token is left out of the tree.
C28_AllTokensConsumed ==
    parsed.tree # None => parser.pos = Len(parser.tokens)

\* C29: in every state reached by add_document calls on a TFIDFIndex, every
\* indexed term has 1 <= doc_freq <= doc_count (no logarithm of zero, no
\* division by zero), every document of a posting list has a stored record
\* and length (no missing key), and every score search returns is >= 0.
C29_SearchIsSafe ==
    cls = "TFIDFIndex" =>
        /\ \A t \in DOMAIN inverted_index :
               /\ t \in DOMAIN doc_freq
               /\ 1 <= doc_freq[t] /\ doc_freq[t] <= doc_count
               /\ \A d \in Keys(inverted_index[t]) :
                      d \in DOMAIN documents /\ d \in DOMAIN doc_lengths
        /\ \A q \in SearchTexts, k \in 1..MaxTopK :
               LET r == SearchResult(q, k)
               IN  \A n \in 1..Len(r) : r[n][2] >= 0

\* search has run on a TFIDFIndex whose one doc_id was added twice, the
\* second time with a text of no token
C29_Witness ==
    /\ cls = "TFIDFIndex"
    /\ last.op = "search"
    /\ ~last.miss
    /\ query_times = 1
    /\ doc_count = 2
    /\ \E d \in DocIds : DOMAIN documents = {d} /\ doc_lengths[d] = 0
    /\ term_count = 2

\* v is what stands at index k of the list in ascending order: at most k
\* entries are smaller than v and more than k entries are at most v
AtRank(times, v, k) ==
    /\ Cardinality({i \in 1..Len(times) : times[i] < v}) <= k
    /\ Cardinality({i \in 1..Len(times) : times[i] <= v}) > k

\* v is the percentile p (in hundredths) of the recorded times: 0 of no
\* time, else the entry at index floor(p * n), which is within [0, n - 1]
IsPercentile(times, v, hundredths) ==
    LET n == Len(times)
        k == (hundredths * n) \div 100
    IN  IF n = 0 THEN v = 0
        ELSE k >= 0 /\ k <= n - 1 /\ AtRank(times, v, k)

\* the dict r is right about the recorded times
ReportMatches(r, times) ==
    /\ ~r.raised
    /\ r.op = "get_metrics" =>
           /\ IsPercentile(times, r.p95_query_time, 95)
           /\ IsPercentile(times, r.p99_query_time, 99)
           /\ Len(times) = 0 => r.avg_query_time.num = 0
    /\ r.op = "get_latency_percentiles" =>
           /\ IsPercentile(times, r.p50, 50)
           /\ IsPercentile(times, r.p95, 95)
           /\ IsPercentile(times, r.p99, 99)

\* C27: get_metrics and get_latency_percentiles return, for n >= 1 recorded
\* query times, the entry at index floor(p * n) of a sorted copy for each
\* percentile p they report (an index within [0, n - 1]), they leave the
\* recorded sequence in its recording order, and for n = 0 they return 0 for
\* every percentile and the mean.
C27_PercentilesOfSortedCopy ==
    [][report' # report =>
           /\ metrics' = metrics
           /\ ReportMatches(report', metrics.query_times)]_vars

\* the percentiles of four query times that were not recorded in ascending
\* order have been returned
C27_Witness ==
    /\ report.op = "get_latency_percentiles"
    /\ metrics.query_times = <<2, 0, 1, 0>>
    /\ report.p50 = 1
    /\ report.p95 = 2

\* the reader is at the posting list of a term whose posting for the
\* document being added is written, while that document's other postings,
\* its doc_freq or doc_count are not
Torn ==
    /\ searching.pc = "postings"
    /\ adding.pc \in {"posting", "doc_freq"}
    /\ searching.terms[1] \in adding.written

\* C21: a search that runs while one add_document(d) is in progress never
\* reads d in a posting list while d's other postings, doc_freq or doc_count
\* are not yet updated, and never fails because of the partial write.
C21_AtomicPerDocument ==
    [][/\ (searching.pc = "postings" /\ searching'.pc # "postings") => ~Torn
       /\ searching'.pc # "raised"]_vars

\* C22: whenever no add_document is in progress, every value in idf_cache
\* is ln(doc_count / doc_freq[t]) for the current counters.
C22_CacheIsCurrent ==
    adding.pc = "idle" =>
        \A t \in DOMAIN idf_cache :
            /\ t \in DOMAIN doc_freq
            /\ doc_count >= 1
            /\ idf_cache[t] = Log(doc_count, doc_freq[t])

\* C23: within one execution of TFIDFIndex.search, every IDF is computed
\* from the same value of doc_count.
C23_OneCounterRead ==
    searching.pc # "idle" =>
        \A i, j \in 1..Len(searching.reads) :
            searching.reads[i].doc_count = searching.reads[j].doc_count

\* the doc_ids a RedisIndex object was called with
Added(h) ==
    IF redis_index[h].state = "none" THEN <<>> ELSE redis_index[h].added

\* no doc_id was handed to add_document twice, by one object or by two
DistinctDocIds ==
    \A h1, h2 \in Handles :
        \A i \in 1..Len(Added(h1)), j \in 1..Len(Added(h2)) :
            (h1 # h2 \/ i # j) => Added(h1)[i] # Added(h2)[j]

\* every add_document call has returned
AllReturned == \A h \in Handles : redis_index[h].state # "adding"

\* C24: with RedisIndex objects on one index name that add documents with
\* distinct doc_ids, once every add_document call has returned the doc_count
\* of the persisted metadata is the number of documents stored in the index.
C24_PersistedDocCount ==
    (AllReturned /\ DistinctDocIds /\ redis_client.metadata # NoKey) =>
        redis_client.metadata.doc_count = Cardinality(DOMAIN redis_client.doc)

\* C30: the doc_count a PostgreSQLIndex.search passes to the scoring query is
\* at least the document frequency of every queried term, so LN(N / df) is
\* never taken with N = 0 or N < df, also when another index object added
\* documents after this one was opened.
C30_NoStaleDocCount ==
    (last.op = "search" /\ "self" \in DOMAIN last) =>
        \A t \in DOMAIN last.df : last.doc_count >= last.df[t]

====
